---- MODULE Spec2Model ----
(***************************************************************************)
(* Node/content store of the notes vault (noting/js/core/store.js) and the *)
(* IndexedDB layer it persists through (db.js, listed in noting/README.md).*)
(* The in-memory Map of nodes is a sequence of records in insertion order, *)
(* the object stores are functions keyed by id.                            *)
(***************************************************************************)
EXTENDS Integers, Sequences, FiniteSets, TLC

VARIABLES
  nodes,           \* Store.nodes: Map id -> node, as a sequence in insertion order
  rootNodes,       \* Store.rootNodes: array of root ids
  expandedNodes,   \* Store.expandedNodes: Set of ids
  selectedNodeId,  \* Store.selectedNodeId
  currentContent,  \* Store.currentContent
  searchIndex,     \* Store.searchIndex: Map id -> entry, as a sequence
  dbNodes,         \* object store 'nodes' (keyPath id)
  dbContent,       \* object store 'content' (keyPath nodeId)
  nextId,          \* source of fresh ids (generateId)
  now,             \* the clock read by Date.now()
  exported,        \* the snapshot last returned by exportVault
  emitted,         \* notifications emitted by the last operation, in order
  dbCalls,         \* persistence writes issued by the last operation, in order
  outcome,         \* how the last operation ended: Returned, the error it threw, or Hung
  searched,        \* the last search call: its arguments and what it returned
  ops,             \* number of operations performed so far
  calls,           \* the asynchronous calls issued while calls may overlap, oldest first
  listeners,       \* EventEmitter.listeners: event -> array of callbacks
  subscriptions,   \* every on() call so far, oldest first, and whether it is still in force
  invoked,         \* the last emit on the emitter: its event, its data and the callbacks it invoked, in order
  editor           \* the Editor: its nodeId, its debounce timer and the form it shows

vars == <<nodes, rootNodes, expandedNodes, selectedNodeId, currentContent,
          searchIndex, dbNodes, dbContent, nextId, now, exported, emitted,
          dbCalls, outcome, searched, ops, calls, listeners, subscriptions, invoked,
          editor>>

\* what the Store's own operations leave alone
emitterVars == <<listeners, subscriptions, invoked>>

\* what on, off and emit called from outside the Store leave alone
storeVars == <<nodes, rootNodes, expandedNodes, selectedNodeId, currentContent,
               searchIndex, dbNodes, dbContent, nextId, now, exported, emitted,
               dbCalls, outcome, searched, calls>>

(* ------------------------------ bounds -------------------------------- *)
MaxIds == 3        \* ids generateId may hand out in one behaviour
MaxClock == 1      \* largest value of the clock
MaxOps == 4        \* operations performed in one behaviour
MaxLimit == 2      \* largest limit given to search
MaxFaultAt == 3    \* a failing persistence call is at most this far into its operation
MaxCallbacks == 2  \* callbacks that subscribe to the emitter
MaxSaves == 1      \* Editor.save calls made in one behaviour
MaxEmitterOps == 6 \* on, unsubscribe and emit calls made on the emitter in one behaviour

(* ------------------------------ values -------------------------------- *)
NULL == 0
Ids == 1..MaxIds
NodeTypes == {"folder", "leaf"}
NoContent == [none |-> TRUE]
NoTemplate == "null"
NoIcon == "null"
NoSnapshot == [none |-> TRUE]
NoSearch == [none |-> TRUE]
NoEmission == [none |-> TRUE]
Returned == "returned"
Hung == "hung"
CycleError == "Cannot move a node into its own descendant"
PersistenceError == "PersistenceError"   \* request.error / transaction.error
DataError == "DataError"                 \* put of a record without a valid key

UpperAlpha == <<"A","B","C","D","E","F","G","H","I","J","K","L","M",
                "N","O","P","Q","R","S","T","U","V","W","X","Y","Z">>
LowerAlpha == <<"a","b","c","d","e","f","g","h","i","j","k","l","m",
                "n","o","p","q","r","s","t","u","v","w","x","y","z">>

\* String.prototype.toLowerCase, on a string held as a sequence of characters
UpperChars == {UpperAlpha[i] : i \in DOMAIN UpperAlpha}
LowerOf == [c \in UpperChars |-> LowerAlpha[CHOOSE i \in DOMAIN UpperAlpha : UpperAlpha[i] = c]]
LowerChar(c) == IF c \in UpperChars THEN LowerOf[c] ELSE c
toLowerCase(str) == [i \in DOMAIN str |-> LowerChar(str[i])]

PathSep == <<" ", ">", " ">>
CopySuffix == <<" ", "(", "C", "o", "p", "y", ")">>

RECURSIVE join(_, _)
join(strs, sep) ==
  IF strs = <<>> THEN <<>>
  ELSE IF Len(strs) = 1 THEN strs[1]
  ELSE strs[1] \o sep \o join(Tail(strs), sep)

\* String.prototype.startsWith
startsWith(str, q) == Len(q) <= Len(str) /\ SubSeq(str, 1, Len(q)) = q

\* String.prototype.includes
includes(str, q) ==
  \E i \in 0..(Len(str) - Len(q)) : SubSeq(str, i + 1, i + Len(q)) = q

WhiteSpace == {" "}

\* String.prototype.trim
RECURSIVE trim(_)
trim(str) ==
  IF str = <<>> THEN <<>>
  ELSE IF Head(str) \in WhiteSpace THEN trim(Tail(str))
  ELSE IF str[Len(str)] \in WhiteSpace THEN trim(SubSeq(str, 1, Len(str) - 1))
  ELSE str

(* ------------------------- Map and object store ----------------------- *)
MapHas(m, id) == \E i \in DOMAIN m : m[i].id = id
MapGet(m, id) == m[CHOOSE i \in DOMAIN m : m[i].id = id]
MapSet(m, rec) ==
  IF MapHas(m, rec.id)
  THEN [i \in DOMAIN m |-> IF m[i].id = rec.id THEN rec ELSE m[i]]
  ELSE Append(m, rec)
MapDelete(m, id) == SelectSeq(m, LAMBDA n : n.id # id)
MapKeys(m) == {m[i].id : i \in DOMAIN m}

StorePut(st, key, rec) == (key :> rec) @@ st
StoreDelete(st, key) == [k \in (DOMAIN st) \ {key} |-> st[k]]
EmptyStore == [k \in {} |-> NULL]

RECURSIVE KeysAscending(_)
KeysAscending(S) ==
  IF S = {} THEN <<>>
  ELSE LET k == CHOOSE x \in S : \A y \in S : x <= y
       IN <<k>> \o KeysAscending(S \ {k})

\* IDBObjectStore.getAll: the records in ascending key order
StoreGetAll(st) ==
  LET ks == KeysAscending(DOMAIN st) IN [i \in DOMAIN ks |-> st[ks[i]]]

(* ---------------------------- Array.sort ------------------------------ *)
\* stable sort of node records, ascending by orderIndex
RECURSIVE sortByOrderIndex(_)
sortByOrderIndex(s) ==
  IF s = <<>> THEN <<>>
  ELSE LET front == sortByOrderIndex(SubSeq(s, 1, Len(s) - 1))
           n == s[Len(s)]
           k == Cardinality({i \in DOMAIN front : front[i].orderIndex <= n.orderIndex})
       IN SubSeq(front, 1, k) \o <<n>> \o SubSeq(front, k + 1, Len(front))

(* ------------------------------ queries ------------------------------- *)
getChildren(m, parentId) ==
  sortByOrderIndex(SelectSeq(m, LAMBDA n : n.parentId = parentId))

\* the node nodeId's parentId names, NULL when either is missing
parentOf(m, nodeId) == IF MapHas(m, nodeId) THEN MapGet(m, nodeId).parentId ELSE NULL

\* the while loop of getNodePath after at most fuel iterations
RECURSIVE walkUp(_, _, _)
walkUp(m, nodeId, fuel) ==
  IF fuel = 0 \/ ~MapHas(m, nodeId) THEN <<>>
  ELSE LET current == MapGet(m, nodeId)
       IN (IF current.parentId # NULL THEN walkUp(m, current.parentId, fuel - 1)
           ELSE <<>>) \o <<current>>

\* where the loop of getNodePath stands after k iterations
RECURSIVE ancestorAt(_, _, _)
ancestorAt(m, nodeId, k) ==
  IF k = 0 \/ nodeId = NULL THEN nodeId ELSE ancestorAt(m, parentOf(m, nodeId), k - 1)

\* the loop of getNodePath never ends: after as many iterations as there are
\* nodes it still stands on a node
pathDiverges(m, nodeId) == MapHas(m, ancestorAt(m, nodeId, Len(m)))

getNodePath(m, nodeId) == walkUp(m, nodeId, Len(m))

\* isDescendant without the walk up the ancestor chain
isDescendantSelfOnly(m, potentialDescendant, ancestorId) ==
  potentialDescendant = ancestorId

\* isDescendant looking no further than the parent
isDescendantOneLevel(m, potentialDescendant, ancestorId) ==
  \/ potentialDescendant = ancestorId
  \/ /\ potentialDescendant # NULL
     /\ parentOf(m, potentialDescendant) = ancestorId

RECURSIVE isDescendant(_, _, _)
isDescendant(m, potentialDescendant, ancestorId) ==
  IF potentialDescendant = ancestorId THEN TRUE
  ELSE IF potentialDescendant = NULL THEN FALSE
  ELSE IF ~MapHas(m, potentialDescendant) THEN FALSE
  ELSE isDescendant(m, MapGet(m, potentialDescendant).parentId, ancestorId)

\* the index entry with an empty path
indexEntryNoPath(m, node) ==
  [id |-> node.id, name |-> toLowerCase(node.name), type |-> node.type, path |-> <<>>]

indexEntry(m, node) ==
  [id   |-> node.id,
   name |-> toLowerCase(node.name),
   type |-> node.type,
   path |-> LET p == getNodePath(m, node.id)
            IN toLowerCase(join([j \in DOMAIN p |-> p[j].name], PathSep))]

(* ---------------------------- EventEmitter ---------------------------- *)
\* this.listeners = {}
NoListeners == [e \in {} |-> <<>>]

on(l, event, callback) ==
  IF event \notin DOMAIN l THEN (event :> <<callback>>) @@ l
  ELSE [l EXCEPT ![event] = Append(@, callback)]

\* off that removes the first occurrence of the callback only
offFirst(l, event, callback) ==
  IF event \in DOMAIN l
  THEN LET at == {i \in DOMAIN l[event] : l[event][i] = callback}
           k == IF at = {} THEN 0 ELSE CHOOSE i \in at : \A j \in at : i <= j
       IN [l EXCEPT ![event] = IF k = 0 THEN @
                               ELSE SubSeq(@, 1, k - 1) \o SubSeq(@, k + 1, Len(@))]
  ELSE l

off(l, event, callback) ==
  IF event \in DOMAIN l
  THEN [l EXCEPT ![event] = SelectSeq(@, LAMBDA cb : cb # callback)]
  ELSE l

\* EventEmitter.emit: the callbacks it invokes, in order, each with data
invokeListeners(l, event, data) ==
  IF event \in DOMAIN l THEN l[event] ELSE <<>>

(* ------------------------- the store as a value ----------------------- *)
\* The Store object and the database behind it, as one record, so that the
\* methods below are functions from store to store.
St ==
  [nodes |-> nodes, rootNodes |-> rootNodes, expandedNodes |-> expandedNodes,
   selectedNodeId |-> selectedNodeId, currentContent |-> currentContent,
   searchIndex |-> searchIndex, dbNodes |-> dbNodes, dbContent |-> dbContent,
   nextId |-> nextId, emitted |-> <<>>, dbCalls |-> <<>>, ret |-> NULL,
   outcome |-> Returned, failAt |-> NULL, seen |-> <<>>]

\* the store before a call during which the persistence call number failAt fails
Failing(failAt) == [St EXCEPT !.failAt = failAt]

\* what a callback finds in the store when it is invoked
visible(s) ==
  [nodes |-> s.nodes, rootNodes |-> s.rootNodes, searchIndex |-> s.searchIndex]

\* EventEmitter.emit, called by the store: the callbacks run before emit
\* returns, so they find the store as it is at the call (seen)
emit(s, event, data) ==
  IF s.outcome # Returned THEN s
  ELSE [s EXCEPT !.emitted = Append(@, [event |-> event, data |-> data]),
                 !.seen = Append(@, visible(s))]

\* buildSearchIndex that leaves the index as it is
keepSearchIndex(s) == s

\* Store.buildSearchIndex: clear the index, then add an entry per node in Map
\* order; the call never returns when it comes to a node whose parentId chain
\* is a cycle, and leaves the entries added before it
buildSearchIndex(s) ==
  LET m == s.nodes
      stuck == {i \in DOMAIN m : pathDiverges(m, m[i].id)}
      upto == IF stuck = {} THEN Len(m)
              ELSE (CHOOSE i \in stuck : \A j \in stuck : i <= j) - 1
  IN [s EXCEPT !.searchIndex = [i \in 1..upto |-> indexEntry(m, m[i])],
               !.outcome = IF stuck = {} THEN @ ELSE Hung]

(* ------------------------------- search ------------------------------- *)
\* calculateSearchScore without the bonus for a match in the path
calculateSearchScoreNameOnly(query, indexed) ==
  IF indexed.name = query THEN 100
  ELSE IF startsWith(indexed.name, query) THEN 50
  ELSE IF includes(indexed.name, query) THEN 20
  ELSE 0

calculateSearchScore(query, indexed) ==
  (IF indexed.name = query THEN 100
   ELSE IF startsWith(indexed.name, query) THEN 50
   ELSE IF includes(indexed.name, query) THEN 20
   ELSE 0)
  + (IF includes(indexed.path, query) THEN 10 ELSE 0)

\* results.sort((a, b) => b.score - a.score): stable, descending by score
RECURSIVE sortByScore(_)
sortByScore(s) ==
  IF s = <<>> THEN <<>>
  ELSE LET front == sortByScore(SubSeq(s, 1, Len(s) - 1))
           r == s[Len(s)]
           k == Cardinality({i \in DOMAIN front : front[i].score >= r.score})
       IN SubSeq(front, 1, k) \o <<r>> \o SubSeq(front, k + 1, Len(front))

\* slice that returns the whole array
sliceWhole(arr, end) == arr

\* Array.prototype.slice(0, end): a negative end counts from the end of the array
slice(arr, end) ==
  LET len == Len(arr)
      to == IF end < 0 THEN (IF len + end < 0 THEN 0 ELSE len + end)
            ELSE (IF end > len THEN len ELSE end)
  IN SubSeq(arr, 1, to)

\* Store.search: what it returns
search(s, query, limit) ==
  IF trim(query) = <<>> THEN <<>>
  ELSE LET lowerQuery == toLowerCase(query)
           hits == SelectSeq(s.searchIndex,
                             LAMBDA indexed : calculateSearchScore(lowerQuery, indexed) > 0)
           results == [i \in DOMAIN hits |->
                         [node |-> IF MapHas(s.nodes, hits[i].id)
                                   THEN MapGet(s.nodes, hits[i].id) ELSE NULL,
                          score |-> calculateSearchScore(lowerQuery, hits[i]),
                          path |-> getNodePath(s.nodes, hits[i].id)]]
       IN slice(sortByScore(results), limit)

(* --------------------------- Database (db.js) ------------------------- *)
EmptyFields == [k \in {} |-> ""]
DefaultIcon == "page"

\* the Editor after construction: no note, an empty form, no timer pending;
\* the dashboard is shown and the editor pane hidden
NoNoteLoaded ==
  [nodeId |-> NULL, title |-> <<>>, icon |-> DefaultIcon, markdown |-> "",
   fields |-> EmptyFields, debounceTimer |-> FALSE, hidden |-> TRUE]

getDefaultContent(nodeId) ==
  [nodeId |-> nodeId, markdown |-> "", fields |-> EmptyFields, tags |-> <<>>,
   links |-> <<>>, icon |-> DefaultIcon, updatedAt |-> now]

\* whether the persistence call about to be made is the one that fails
fails(s) == s.failAt = Len(s.dbCalls) + 1

\* the request fails: the transaction is aborted, nothing is written, and the
\* promise rejects
rejected(s, call, key) ==
  [s EXCEPT !.dbCalls = Append(@, [call |-> call, key |-> key]),
            !.outcome = PersistenceError]

dbSaveNode(s, node) ==
  IF fails(s) THEN rejected(s, "saveNode", node.id)
  ELSE [s EXCEPT !.dbNodes = StorePut(@, node.id, node),
                 !.dbCalls = Append(@, [call |-> "saveNode", key |-> node.id])]

\* deleteNode that leaves the content record behind
dbDeleteNodeKeepContent(s, id) ==
  [s EXCEPT !.dbNodes = StoreDelete(@, id),
            !.dbCalls = Append(@, [call |-> "deleteNode", key |-> id])]

\* deleteNode that removes the content record only
dbDeleteNodeContentOnly(s, id) ==
  [s EXCEPT !.dbContent = StoreDelete(@, id),
            !.dbCalls = Append(@, [call |-> "deleteNode", key |-> id])]

\* deleteNode whose failed transaction keeps the delete of the node record
dbDeleteNodeTorn(s, id) ==
  IF fails(s)
  THEN [rejected(s, "deleteNode", id) EXCEPT !.dbNodes = StoreDelete(@, id)]
  ELSE [s EXCEPT !.dbNodes = StoreDelete(@, id),
                 !.dbContent = StoreDelete(@, id),
                 !.dbCalls = Append(@, [call |-> "deleteNode", key |-> id])]

\* one readwrite transaction over both object stores
dbDeleteNode(s, id) ==
  IF fails(s) THEN rejected(s, "deleteNode", id)
  ELSE [s EXCEPT !.dbNodes = StoreDelete(@, id),
                 !.dbContent = StoreDelete(@, id),
                 !.dbCalls = Append(@, [call |-> "deleteNode", key |-> id])]

dbGetContent(s, nodeId) ==
  IF nodeId \in DOMAIN s.dbContent THEN s.dbContent[nodeId]
  ELSE getDefaultContent(nodeId)

dbSaveContent(s, content) ==
  IF fails(s) THEN rejected(s, "saveContent", content.nodeId)
  ELSE [s EXCEPT !.dbContent = StorePut(@, content.nodeId, content),
                 !.dbCalls = Append(@, [call |-> "saveContent", key |-> content.nodeId])]

DB_VERSION == 2

dbExportAll(s) ==
  [version |-> DB_VERSION, exportDate |-> now,
   nodes |-> StoreGetAll(s.dbNodes), contents |-> StoreGetAll(s.dbContent)]

RECURSIVE putNodes(_, _)
putNodes(st, recs) ==
  IF recs = <<>> THEN st
  ELSE putNodes(StorePut(st, Head(recs).id, Head(recs)), Tail(recs))

RECURSIVE putContents(_, _)
putContents(st, recs) ==
  IF recs = <<>> THEN st
  ELSE putContents(StorePut(st, Head(recs).nodeId, Head(recs)), Tail(recs))

\* importAll that clears both object stores and puts the nodes only
dbImportAllNodesOnly(s, data) ==
  [s EXCEPT !.dbNodes = putNodes(EmptyStore, data.nodes),
            !.dbContent = EmptyStore,
            !.dbCalls = Append(@, [call |-> "importAll", key |-> NULL])]

\* the position of the first record whose key field holds no valid key, 0
\* when every record has one
firstKeyless(recs, field) ==
  LET bad == {i \in DOMAIN recs : recs[i][field] = NULL}
  IN IF bad = {} THEN 0 ELSE CHOOSE i \in bad : \A j \in bad : i <= j

\* one readwrite transaction: clear both object stores, then put every
\* record of the snapshot. put throws DataError on a record without a valid
\* key: the promise rejects, and the transaction, which nothing aborts,
\* commits the two clears and the puts made before the throw. A request that
\* fails aborts the transaction and leaves both stores as they were.
dbImportAll(s, data) ==
  LET badNode == firstKeyless(data.nodes, "id")
      badContent == IF badNode # 0 THEN 1 ELSE firstKeyless(data.contents, "nodeId")
      nodesPut == IF badNode = 0 THEN data.nodes
                  ELSE SubSeq(data.nodes, 1, badNode - 1)
      contentsPut == IF badContent = 0 THEN data.contents
                     ELSE SubSeq(data.contents, 1, badContent - 1)
  IN IF fails(s) THEN rejected(s, "importAll", NULL)
     ELSE [s EXCEPT !.dbNodes = putNodes(EmptyStore, nodesPut),
                    !.dbContent = putContents(EmptyStore, contentsPut),
                    !.dbCalls = Append(@, [call |-> "importAll", key |-> NULL]),
                    !.outcome = IF badNode = 0 /\ badContent = 0 THEN @ ELSE DataError]

(* ------------------------------ helpers ------------------------------- *)
getDefaultIcon(template) ==
  CASE template = "npc" -> "person"
    [] template = "location" -> "castle"
    [] template = "item" -> "dagger"
    [] template = "quest" -> "scroll"
    [] template = "monster" -> "dragon"
    [] template = "faction" -> "swords"
    [] OTHER -> DefaultIcon

Blank(keys) == [k \in keys |-> ""]

getTemplateFields(template) ==
  CASE template = "npc" ->
         Blank({"Role", "Species", "Alignment", "Age", "Personality",
                "Appearance", "Motivations", "Secrets"})
    [] template = "location" ->
         Blank({"Type", "Region", "Climate", "Population", "Ruler",
                "Notable Features"})
    [] template = "item" ->
         Blank({"Type", "Rarity", "Attunement", "Value", "Weight", "Properties"})
    [] template = "quest" ->
         ("Status" :> "Active") @@
         Blank({"Level", "Giver", "Reward", "Location", "Objective"})
    [] template = "monster" ->
         Blank({"CR", "AC", "HP", "Speed", "Abilities", "Weaknesses",
                "Resistances"})
    [] template = "faction" ->
         Blank({"Type", "Alignment", "Leader", "Headquarters", "Goals",
                "Notable Members"})
    [] OTHER -> EmptyFields

\* the comparator of the two rootNodes.sort calls: stable, ascending by the
\* orderIndex of the node each id names
sortRootNodes(m, ids) ==
  LET sorted == sortByOrderIndex([i \in DOMAIN ids |-> MapGet(m, ids[i])])
  IN [i \in DOMAIN sorted |-> sorted[i].id]

(* ------------------------------- Store -------------------------------- *)
\* loadNodes that does not reset rootNodes before filling it
loadNodesKeepRoots(s) ==
  LET all == StoreGetAll(s.dbNodes)
      roots == SelectSeq(all, LAMBDA n : n.parentId = NULL)
      s1 == [s EXCEPT !.nodes = all,
                      !.rootNodes = sortRootNodes(all, @ \o [i \in DOMAIN roots |-> roots[i].id])]
      s2 == buildSearchIndex(s1)
  IN emit(s2, "nodesChanged", NULL)

loadNodes(s) ==
  LET all == StoreGetAll(s.dbNodes)
      roots == SelectSeq(all, LAMBDA n : n.parentId = NULL)
      s1 == [s EXCEPT !.nodes = all,
                      !.rootNodes = sortRootNodes(all, [i \in DOMAIN roots |-> roots[i].id])]
      s2 == buildSearchIndex(s1)
  IN emit(s2, "nodesChanged", NULL)

\* createNode that notifies before it rebuilds the search index
createNodeNotifyFirst(s, name, type, parentId, template, icon, active) ==
  LET siblings == getChildren(s.nodes, parentId)
      node == [id |-> s.nextId, parentId |-> parentId, type |-> type,
               name |-> name, orderIndex |-> Len(siblings), active |-> active,
               createdAt |-> now, updatedAt |-> now]
      s1 == [dbSaveNode(s, node) EXCEPT !.nextId = @ + 1]
      s2 == [s1 EXCEPT !.nodes = MapSet(@, node)]
      s3 == IF parentId = NULL
            THEN [s2 EXCEPT !.rootNodes = Append(@, node.id)] ELSE s2
      content == [getDefaultContent(node.id) EXCEPT
                    !.icon = IF icon # NoIcon THEN icon ELSE getDefaultIcon(template),
                    !.fields = IF template # NoTemplate
                               THEN getTemplateFields(template) ELSE @]
      s4 == IF type = "leaf" THEN dbSaveContent(s3, content) ELSE s3
      s5 == emit(emit(s4, "nodeCreated", node), "nodesChanged", NULL)
      s6 == buildSearchIndex(s5)
  IN IF s1.outcome # Returned THEN s1
     ELSE IF s4.outcome # Returned THEN s4
     ELSE [s6 EXCEPT !.ret = node]

createNode(s, name, type, parentId, template, icon, active) ==
  LET siblings == getChildren(s.nodes, parentId)
      node == [id |-> s.nextId, parentId |-> parentId, type |-> type,
               name |-> name, orderIndex |-> Len(siblings), active |-> active,
               createdAt |-> now, updatedAt |-> now]
      s1 == [dbSaveNode(s, node) EXCEPT !.nextId = @ + 1]
      s2 == [s1 EXCEPT !.nodes = MapSet(@, node)]
      s3 == IF parentId = NULL
            THEN [s2 EXCEPT !.rootNodes = Append(@, node.id)] ELSE s2
      content == [getDefaultContent(node.id) EXCEPT
                    !.icon = IF icon # NoIcon THEN icon ELSE getDefaultIcon(template),
                    !.fields = IF template # NoTemplate
                               THEN getTemplateFields(template) ELSE @]
      s4 == IF type = "leaf" THEN dbSaveContent(s3, content) ELSE s3
      s5 == buildSearchIndex(s4)
      s6 == emit(emit(s5, "nodeCreated", node), "nodesChanged", NULL)
  IN IF s1.outcome # Returned THEN s1
     ELSE IF s4.outcome # Returned THEN s4
     ELSE [s6 EXCEPT !.ret = node]

\* updateNode that puts the record into the nodes map before it persists it
updateNodeMemoryFirst(s, id, updates) ==
  IF ~MapHas(s.nodes, id) THEN [s EXCEPT !.ret = NULL]
  ELSE LET updated == ("updatedAt" :> now) @@ updates @@ MapGet(s.nodes, id)
           s1 == dbSaveNode([s EXCEPT !.nodes = MapSet(@, updated)], updated)
           s2 == IF "name" \in DOMAIN updates THEN buildSearchIndex(s1) ELSE s1
       IN IF s1.outcome # Returned THEN s1
          ELSE [emit(s2, "nodeUpdated", updated) EXCEPT !.ret = updated]

\* updates is a function from the names of the fields given to their values
updateNode(s, id, updates) ==
  IF ~MapHas(s.nodes, id) THEN [s EXCEPT !.ret = NULL]
  ELSE LET node == MapGet(s.nodes, id)
           updated == ("updatedAt" :> now) @@ updates @@ node
           s1 == dbSaveNode(s, updated)
           s2 == [s1 EXCEPT !.nodes = MapSet(@, updated)]
           s3 == IF "name" \in DOMAIN updates
                 THEN buildSearchIndex(s2) ELSE s2
           s4 == emit(s3, "nodeUpdated", updated)
       IN IF s1.outcome # Returned THEN s1
          ELSE [s4 EXCEPT !.ret = updated]

RECURSIVE deleteNode(_, _)
RECURSIVE deleteEach(_, _)

\* the loop over the children that deletes none of them
deleteEachSkip(s, children) == s

\* the loop over the children: for (const child of children) await deleteNode(child.id)
deleteEach(s, children) ==
  IF children = <<>> THEN s
  ELSE deleteEach(deleteNode(s, Head(children).id), Tail(children))

\* deleteNode that leaves the selection alone
deleteNodeKeepSelection(s, id) ==
  IF s.outcome # Returned \/ ~MapHas(s.nodes, id) THEN s
  ELSE LET node == MapGet(s.nodes, id)
           s1 == deleteEach(s, getChildren(s.nodes, id))
           s2 == dbDeleteNode(s1, id)
           s3 == [s2 EXCEPT !.nodes = MapDelete(@, id)]
           s4 == IF node.parentId = NULL
                 THEN [s3 EXCEPT !.rootNodes = SelectSeq(@, LAMBDA nodeId : nodeId # id)]
                 ELSE s3
           s6 == buildSearchIndex(s4)
       IN IF s1.outcome # Returned THEN s1
          ELSE IF s2.outcome # Returned THEN s2
          ELSE emit(emit(s6, "nodeDeleted", id), "nodesChanged", NULL)

deleteNode(s, id) ==
  IF s.outcome # Returned \/ ~MapHas(s.nodes, id) THEN s
  ELSE LET node == MapGet(s.nodes, id)
           s1 == deleteEach(s, getChildren(s.nodes, id))
           s2 == dbDeleteNode(s1, id)
           s3 == [s2 EXCEPT !.nodes = MapDelete(@, id)]
           s4 == IF node.parentId = NULL
                 THEN [s3 EXCEPT !.rootNodes = SelectSeq(@, LAMBDA nodeId : nodeId # id)]
                 ELSE s3
           s5 == IF s4.selectedNodeId = id
                 THEN emit([s4 EXCEPT !.selectedNodeId = NULL,
                                      !.currentContent = NoContent],
                           "selectionChanged", NULL)
                 ELSE s4
           s6 == buildSearchIndex(s5)
       IN IF s1.outcome # Returned THEN s1
          ELSE IF s2.outcome # Returned THEN s2
          ELSE emit(emit(s6, "nodeDeleted", id), "nodesChanged", NULL)

\* the moved node with its orderIndex left as it was
movedNodeKeepIndex(s, node, newParentId) ==
  [node EXCEPT !.parentId = newParentId, !.updatedAt = now]

\* the record moveNode writes for the node: appended to its new sibling group
movedNode(s, node, newParentId) ==
  LET siblings == getChildren(s.nodes, newParentId)
  IN [node EXCEPT !.parentId = newParentId,
                  !.orderIndex = Len(siblings),
                  !.updatedAt = now]

moveNode(s, nodeId, newParentId) ==
  IF ~MapHas(s.nodes, nodeId) THEN s
  ELSE IF isDescendant(s.nodes, newParentId, nodeId)
  THEN [s EXCEPT !.outcome = CycleError]
  ELSE LET node == MapGet(s.nodes, nodeId)
           updated == movedNode(s, node, newParentId)
           s1 == dbSaveNode(s, updated)
           s2 == [s1 EXCEPT !.nodes = MapSet(@, updated)]
           s3 == IF node.parentId = NULL
                 THEN [s2 EXCEPT !.rootNodes = SelectSeq(@, LAMBDA id : id # nodeId)]
                 ELSE s2
           s4 == IF newParentId = NULL
                 THEN [s3 EXCEPT !.rootNodes = sortRootNodes(s3.nodes, Append(@, nodeId))]
                 ELSE s3
           s5 == buildSearchIndex(s4)
       IN IF s1.outcome # Returned THEN s1
          ELSE emit(emit(s5, "nodeMoved", updated), "nodesChanged", NULL)

\* Array.prototype.splice(start, 0, item): start is clamped into 0..length
spliceInsert(arr, start, item) ==
  LET len == Len(arr)
      at == IF start < 0 THEN (IF len + start < 0 THEN 0 ELSE len + start)
            ELSE (IF start > len THEN len ELSE start)
  IN SubSeq(arr, 1, at) \o <<item>> \o SubSeq(arr, at + 1, len)

\* Array.prototype.splice(start, 1) for a start inside the array
spliceRemove(arr, start) ==
  SubSeq(arr, 1, start) \o SubSeq(arr, start + 2, Len(arr))

\* the renumbering loop that changes the nodes map and saves nothing
RECURSIVE renumberUnsaved(_, _, _)
renumberUnsaved(s, siblings, i) ==
  IF i >= Len(siblings) THEN s
  ELSE renumberUnsaved(
         [s EXCEPT !.nodes = MapSet(@, [siblings[i + 1] EXCEPT !.orderIndex = i,
                                                              !.updatedAt = now])],
         siblings, i + 1)

\* the renumbering loop of reorderNode, from position i (zero-based) on
RECURSIVE renumber(_, _, _)
renumber(s, siblings, i) ==
  IF i >= Len(siblings) THEN s
  ELSE LET sibling == siblings[i + 1]
       IN IF sibling.orderIndex # i
          THEN LET changed == [sibling EXCEPT !.orderIndex = i, !.updatedAt = now]
                   s1 == [s EXCEPT !.nodes = MapSet(@, changed)]
                   s2 == dbSaveNode(s1, changed)
               IN IF s2.outcome # Returned THEN s2
                  ELSE renumber(s2, siblings, i + 1)
          ELSE renumber(s, siblings, i + 1)

reorderNode(s, nodeId, newIndex) ==
  IF ~MapHas(s.nodes, nodeId) THEN s
  ELSE LET node == MapGet(s.nodes, nodeId)
           siblings == getChildren(s.nodes, node.parentId)
           found == {i \in DOMAIN siblings : siblings[i].id = nodeId}
           oldIndex == IF found = {} THEN -1
                       ELSE (CHOOSE i \in found : \A j \in found : i <= j) - 1
       IN IF oldIndex = -1 \/ oldIndex = newIndex THEN s
          ELSE LET moved == spliceInsert(spliceRemove(siblings, oldIndex), newIndex, node)
               IN emit(renumber(s, moved, 0), "nodesChanged", NULL)

\* toggleActive that notifies without looking the node up
toggleActiveNotifyMissing(s, nodeId) ==
  emit([s EXCEPT !.ret = NULL], "activeChanged", nodeId)

\* toggleActive that does not look at the type of the node
toggleActiveAnyType(s, nodeId) ==
  IF ~MapHas(s.nodes, nodeId) THEN [s EXCEPT !.ret = NULL]
  ELSE LET s1 == updateNode(s, nodeId, "active" :> ~MapGet(s.nodes, nodeId).active)
       IN emit(s1, "activeChanged", nodeId)

toggleActive(s, nodeId) ==
  IF ~MapHas(s.nodes, nodeId) THEN [s EXCEPT !.ret = NULL]
  ELSE IF MapGet(s.nodes, nodeId).type # "leaf" THEN [s EXCEPT !.ret = NULL]
  ELSE LET s1 == updateNode(s, nodeId, "active" :> ~MapGet(s.nodes, nodeId).active)
       IN emit(s1, "activeChanged", nodeId)

RECURSIVE duplicateNodeRecursive(_, _, _)
RECURSIVE duplicateEach(_, _, _)

\* for (const child of children) await duplicateNodeRecursive(child.id, newParentId)
duplicateEach(s, children, newParentId) ==
  IF children = <<>> THEN s
  ELSE duplicateEach(duplicateNodeRecursive(s, Head(children).id, newParentId),
                     Tail(children), newParentId)

\* the copy keeps the default Content createNode gave it
copyContentDefault(s, nodeId, newId) == s

copyContent(s, nodeId, newId) ==
  dbSaveContent(s, [dbGetContent(s, nodeId) EXCEPT !.nodeId = newId])

duplicateNodeRecursive(s, nodeId, newParentId) ==
  IF s.outcome # Returned THEN s ELSE
  LET node == MapGet(s.nodes, nodeId)
      s1 == createNode(s, node.name, node.type, newParentId, NoTemplate, NoIcon, FALSE)
      newNode == s1.ret
      s2 == IF node.type = "leaf" THEN copyContent(s1, nodeId, newNode.id) ELSE s1
  IN IF s1.outcome # Returned THEN s1
     ELSE duplicateEach(s2, getChildren(s2.nodes, nodeId), newNode.id)

duplicateNode(s, nodeId) ==
  IF ~MapHas(s.nodes, nodeId) THEN s
  ELSE LET node == MapGet(s.nodes, nodeId)
           s1 == createNode(s, node.name \o CopySuffix, node.type, node.parentId,
                            NoTemplate, NoIcon, FALSE)
           newNode == s1.ret
           s2 == IF node.type = "leaf" THEN copyContent(s1, nodeId, newNode.id) ELSE s1
           s3 == duplicateEach(s2, getChildren(s2.nodes, nodeId), newNode.id)
       IN IF s1.outcome # Returned THEN s1
          ELSE IF s3.outcome # Returned THEN s3
          ELSE [s3 EXCEPT !.ret = newNode]

selectNode(s, nodeId) ==
  LET s1 == [s EXCEPT !.selectedNodeId = nodeId,
                      !.currentContent = IF nodeId # NULL THEN dbGetContent(s, nodeId)
                                         ELSE NoContent]
  IN emit(s1, "selectionChanged", nodeId)

\* updateContent that also bumps updatedAt of the selected node
updateContentTouchNode(s, updates) ==
  IF s.selectedNodeId = NULL \/ s.currentContent = NoContent THEN s
  ELSE LET updated == ("updatedAt" :> now) @@ updates @@ s.currentContent
           s1 == dbSaveContent(s, updated)
           s2 == emit([s1 EXCEPT !.currentContent = updated], "contentChanged", updated)
           s3 == IF MapHas(s2.nodes, s.selectedNodeId)
                 THEN [s2 EXCEPT !.nodes =
                         MapSet(@, [MapGet(@, s.selectedNodeId) EXCEPT !.updatedAt = @ + 1])]
                 ELSE s2
       IN IF "tags" \in DOMAIN updates THEN buildSearchIndex(s3) ELSE s3

\* updates is a function from the names of the fields given to their values
updateContent(s, updates) ==
  IF s.selectedNodeId = NULL \/ s.currentContent = NoContent THEN s
  ELSE LET updated == ("updatedAt" :> now) @@ updates @@ s.currentContent
           s1 == dbSaveContent(s, updated)
           s2 == emit([s1 EXCEPT !.currentContent = updated], "contentChanged", updated)
       IN IF s1.outcome # Returned THEN s1
          ELSE IF "tags" \in DOMAIN updates
          THEN buildSearchIndex(s2) ELSE s2

toggleExpanded(s, nodeId) ==
  emit([s EXCEPT !.expandedNodes = IF nodeId \in @ THEN @ \ {nodeId}
                                   ELSE @ \cup {nodeId}],
       "expansionChanged", nodeId)

exportVault(s) == [s EXCEPT !.ret = dbExportAll(s)]

importVault(s, data) ==
  LET s0 == dbImportAll(s, data)
      s1 == loadNodes(s0)
  IN IF s0.outcome # Returned THEN s0
     ELSE IF s1.outcome # Returned THEN s1 ELSE
     emit([s1 EXCEPT !.selectedNodeId = NULL, !.currentContent = NoContent,
                     !.expandedNodes = {}],
          "selectionChanged", NULL)

(* ----------------- calls that suspend at the database ------------------ *)
\* createNode and selectNode in the pieces between their awaits, for callers
\* that issue a call while an earlier one is suspended.

\* createNode whose orderIndex is the new id
newNodeOrderedById(s, name, type, parentId, active) ==
  [id |-> s.nextId, parentId |-> parentId, type |-> type, name |-> name,
   orderIndex |-> s.nextId, active |-> active, createdAt |-> now, updatedAt |-> now]

\* createNode up to db.saveNode: the record it is about to save
newNode(s, name, type, parentId, active) ==
  LET siblings == getChildren(s.nodes, parentId)
  IN [id |-> s.nextId, parentId |-> parentId, type |-> type, name |-> name,
      orderIndex |-> Len(siblings), active |-> active,
      createdAt |-> now, updatedAt |-> now]

\* createNode from the return of db.saveNode to db.saveContent (a leaf) or to
\* its end (a folder)
createNodeSaved(s, node, template, icon) ==
  LET s1 == dbSaveNode(s, node)
      s2 == [s1 EXCEPT !.nodes = MapSet(@, node)]
      s3 == IF node.parentId = NULL
            THEN [s2 EXCEPT !.rootNodes = Append(@, node.id)] ELSE s2
  IN IF node.type = "leaf" THEN s3
     ELSE emit(emit(buildSearchIndex(s3), "nodeCreated", node), "nodesChanged", NULL)

\* the Content record createNode saves for a leaf
newContent(node, template, icon) ==
  [getDefaultContent(node.id) EXCEPT
     !.icon = IF icon # NoIcon THEN icon ELSE getDefaultIcon(template),
     !.fields = IF template # NoTemplate THEN getTemplateFields(template) ELSE @]

\* createNode from the return of db.saveContent to its end
createNodeContentSaved(s, node, template, icon) ==
  LET s4 == dbSaveContent(s, newContent(node, template, icon))
  IN emit(emit(buildSearchIndex(s4), "nodeCreated", node), "nodesChanged", NULL)

\* selectNode up to db.getContent, or to its end when nodeId is null
selectNodeBegun(s, nodeId) ==
  LET s1 == [s EXCEPT !.selectedNodeId = nodeId]
  IN IF nodeId # NULL THEN s1
     ELSE emit([s1 EXCEPT !.currentContent = NoContent], "selectionChanged", nodeId)

\* selectNode from the return of db.getContent to its end
selectNodeLoaded(s, nodeId) ==
  emit([s EXCEPT !.currentContent = dbGetContent(s, nodeId)],
       "selectionChanged", nodeId)

\* updateContent up to db.saveContent: the record it is about to save, built
\* from the current content it finds
updatedContent(s, updates) == ("updatedAt" :> now) @@ updates @@ s.currentContent

\* updateContent from the return of db.saveContent to its end
updateContentSaved(s, updates, updated) ==
  LET s1 == dbSaveContent(s, updated)
      s2 == emit([s1 EXCEPT !.currentContent = updated], "contentChanged", updated)
  IN IF "tags" \in DOMAIN updates THEN buildSearchIndex(s2) ELSE s2

\* moveNode up to db.saveNode: the store after the lookup and the descendant
\* check
moveNodeBegun(s, nodeId, newParentId) ==
  IF ~MapHas(s.nodes, nodeId) THEN s
  ELSE IF isDescendant(s.nodes, newParentId, nodeId)
  THEN [s EXCEPT !.outcome = CycleError]
  ELSE s

\* the rest of moveNode with the descendant check made again on its way
moveNodeSavedChecked(s, node, updated) ==
  IF isDescendant(s.nodes, updated.parentId, node.id)
  THEN [s EXCEPT !.outcome = CycleError]
  ELSE LET s1 == dbSaveNode(s, updated)
           s2 == [s1 EXCEPT !.nodes = MapSet(@, updated)]
           s3 == IF node.parentId = NULL
                 THEN [s2 EXCEPT !.rootNodes = SelectSeq(@, LAMBDA id : id # node.id)]
                 ELSE s2
           s4 == IF updated.parentId = NULL
                 THEN [s3 EXCEPT !.rootNodes = sortRootNodes(s3.nodes, Append(@, node.id))]
                 ELSE s3
       IN emit(emit(buildSearchIndex(s4), "nodeMoved", updated), "nodesChanged", NULL)

\* moveNode from the return of db.saveNode to its end: node is the record
\* the call read before it was suspended, updated the record it saved
moveNodeSaved(s, node, updated) ==
  LET s1 == dbSaveNode(s, updated)
      s2 == [s1 EXCEPT !.nodes = MapSet(@, updated)]
      s3 == IF node.parentId = NULL
            THEN [s2 EXCEPT !.rootNodes = SelectSeq(@, LAMBDA id : id # node.id)]
            ELSE s2
      s4 == IF updated.parentId = NULL
            THEN [s3 EXCEPT !.rootNodes = sortRootNodes(s3.nodes, Append(@, node.id))]
            ELSE s3
  IN emit(emit(buildSearchIndex(s4), "nodeMoved", updated), "nodesChanged", NULL)

\* updateNode from the return of db.saveNode to its end, for a change of name
updateNodeSaved(s, updated) ==
  LET s1 == dbSaveNode(s, updated)
      s2 == [s1 EXCEPT !.nodes = MapSet(@, updated)]
  IN emit(buildSearchIndex(s2), "nodeUpdated", updated)

\* App.onSelectionChanged, the callback the App subscribes to
\* selectionChanged: the store and the editor e after it, and whether it
\* called Editor.load
onSelectionChanged(s, e, nodeId) ==
  IF nodeId = NULL
  THEN [store |-> s, editor |-> [e EXCEPT !.hidden = TRUE], load |-> FALSE]
  ELSE IF ~MapHas(s.nodes, nodeId)
  THEN [store |-> s, editor |-> e, load |-> FALSE]
  ELSE IF MapGet(s.nodes, nodeId).type = "folder"
  THEN [store |-> toggleExpanded(s, nodeId),
        editor |-> [e EXCEPT !.hidden = TRUE], load |-> FALSE]
  ELSE [store |-> s,
        editor |-> [e EXCEPT !.hidden = FALSE, !.nodeId = nodeId], load |-> TRUE]

\* Editor.load from the return of db.getContent: the form shows the node
\* read before the call was suspended and the content read
loadedForm(e, node, content) ==
  [e EXCEPT !.title = node.name, !.icon = content.icon,
            !.markdown = content.markdown, !.fields = content.fields]

\* the updateContent call of Editor.save, up to db.saveContent: the call for
\* the editor's nodeId with the record it is about to save, or ended at once
\* when the store has nothing selected
saveContentCall(s, nodeId, title, updates, closing) ==
  IF s.selectedNodeId = NULL \/ s.currentContent = NoContent
  THEN [op |-> "save", pc |-> "done", nodeId |-> nodeId, title |-> title,
        updates |-> updates, closing |-> closing]
  ELSE [op |-> "save", pc |-> "saveContent", nodeId |-> nodeId, title |-> title,
        updates |-> updates, closing |-> closing,
        updated |-> updatedContent(s, updates)]

\* Editor.save up to its first await in the store s with the editor e: the
\* call with where it is suspended
saveCall(s, e, closing) ==
  IF e.nodeId = NULL \/ ~MapHas(s.nodes, e.nodeId)
  THEN [op |-> "save", pc |-> "done", nodeId |-> e.nodeId, closing |-> closing]
  ELSE LET node == MapGet(s.nodes, e.nodeId)
           title == IF trim(e.title) = <<>> THEN node.name ELSE trim(e.title)
           updates == [icon |-> e.icon, markdown |-> e.markdown, fields |-> e.fields]
       IN IF title # node.name
          THEN [op |-> "save", pc |-> "saveNode", nodeId |-> e.nodeId,
                title |-> title, updates |-> updates, closing |-> closing,
                updatedNode |-> ("updatedAt" :> now) @@ ("name" :> title) @@ node]
          ELSE saveContentCall(s, e.nodeId, title, updates, closing)

\* the nodes of the subtree rooted at id, id included
RECURSIVE subtree(_, _)
subtree(m, id) ==
  {id} \cup UNION {subtree(m, m[i].id) : i \in {j \in DOMAIN m : m[j].parentId = id}}

(* ------------------------------ inputs -------------------------------- *)
Names == {<<"E", "m">>}
\* the names a rename gives
NewNames == {<<"M", "e">>}
Templates == {NoTemplate}
Icons == {NoIcon}
\* what the user types in the markdown editor
Texts == {"text"}
ContentUpdates == {"markdown" :> "text", "tags" :> <<"t">>}

\* what is typed into the search box, and the limits asked for
Queries == {<<>>, <<" ">>, <<"e", "m">>, <<"E", "m">>, <<" ", "e", "m">>,
            <<"e", "m", " ">>, <<"m">>, <<"m", "e">>, <<">">>}
Limits == 0..MaxLimit

\* ids a caller can hold: those generateId has handed out so far and those
\* of the nodes loaded from an imported file
KnownIds == (1..(nextId - 1)) \cup MapKeys(nodes)

\* which persistence call of an operation fails
Faults == 1..MaxFaultAt

\* ids in files written elsewhere: generateId never hands them out here
ForeignFolder == MaxIds + 1
ForeignLeaf == MaxIds + 2

fileNode(id, parentId, type) ==
  [id |-> id, parentId |-> parentId, type |-> type, name |-> <<"E", "m">>,
   orderIndex |-> 0, active |-> FALSE, createdAt |-> 0, updatedAt |-> 0]

fileOf(ns, cs) ==
  [version |-> DB_VERSION, exportDate |-> 0, nodes |-> ns, contents |-> cs]

\* the files picked for import: an empty vault, a vault with a folder and a
\* leaf in it, and a file one of whose node records has no id
Snapshots ==
  {fileOf(<<>>, <<>>),
   fileOf(<<fileNode(ForeignFolder, NULL, "folder"),
            fileNode(ForeignLeaf, ForeignFolder, "leaf")>>,
          <<[getDefaultContent(ForeignLeaf) EXCEPT !.updatedAt = 0]>>),
   fileOf(<<fileNode(ForeignFolder, NULL, "folder"),
            fileNode(NULL, ForeignFolder, "leaf")>>,
          <<[getDefaultContent(ForeignLeaf) EXCEPT !.updatedAt = 0]>>)}
\* files whose parentId links are not a tree: two folders each inside the
\* other, a folder inside itself, and a leaf whose parent is not in the file
CyclicSnapshots ==
  {fileOf(<<fileNode(ForeignFolder, ForeignLeaf, "folder"),
            fileNode(ForeignLeaf, ForeignFolder, "folder")>>, <<>>),
   fileOf(<<fileNode(ForeignFolder, ForeignFolder, "folder")>>, <<>>)}
OrphanSnapshots ==
  {fileOf(<<fileNode(ForeignLeaf, ForeignFolder, "leaf")>>,
          <<[getDefaultContent(ForeignLeaf) EXCEPT !.updatedAt = 0]>>)}
TangledSnapshots == CyclicSnapshots \cup OrphanSnapshots
IndexArgs == -1..MaxIds

\* the events subscribed to and emitted, and the callbacks that subscribe
Events == {"nodesChanged", "selectionChanged"}
Callbacks == 1..MaxCallbacks

\* the store and the database become s
Assign(s) ==
  /\ outcome # Hung
  /\ nodes' = s.nodes
  /\ rootNodes' = s.rootNodes
  /\ expandedNodes' = s.expandedNodes
  /\ selectedNodeId' = s.selectedNodeId
  /\ currentContent' = s.currentContent
  /\ searchIndex' = s.searchIndex
  /\ dbNodes' = s.dbNodes
  /\ dbContent' = s.dbContent
  /\ nextId' = s.nextId
  /\ emitted' = s.emitted
  /\ dbCalls' = s.dbCalls
  /\ outcome' = s.outcome

\* an operation starts only when the previous one has ended: a call that never
\* returns holds the only thread
Commit(s) ==
  /\ Assign(s)
  /\ ops < MaxOps
  /\ ops' = ops + 1
  /\ UNCHANGED <<calls, emitterVars, editor>>

(* --------------------------- specification ---------------------------- *)
\* the store after construction and init() on an empty database
Init ==
  /\ nodes = <<>>
  /\ rootNodes = <<>>
  /\ expandedNodes = {}
  /\ selectedNodeId = NULL
  /\ currentContent = NoContent
  /\ searchIndex = <<>>
  /\ dbNodes = EmptyStore
  /\ dbContent = EmptyStore
  /\ nextId = 1
  /\ now = 0
  /\ exported = NoSnapshot
  /\ emitted = <<>>
  /\ dbCalls = <<>>
  /\ outcome = Returned
  /\ searched = NoSearch
  /\ ops = 0
  /\ calls = <<>>
  /\ listeners = NoListeners
  /\ subscriptions = <<>>
  /\ invoked = NoEmission
  /\ editor = NoNoteLoaded

createNodeCall(name, type, parentId, template, icon) ==
  /\ nextId <= MaxIds
  /\ Commit(createNode(St, name, type, parentId, template, icon, FALSE))
  /\ UNCHANGED <<now, exported, searched>>

CreateNode ==
  \E name \in Names, type \in NodeTypes, parentId \in KnownIds \cup {NULL},
     template \in Templates, icon \in Icons :
    createNodeCall(name, type, parentId, template, icon)

updateNodeCall(id, updates) ==
  /\ Commit(updateNode(St, id, updates))
  /\ UNCHANGED <<now, exported, searched>>

\* the callers rename: updateNode(id, { name })
UpdateNode ==
  \E id \in KnownIds, name \in NewNames : updateNodeCall(id, "name" :> name)

deleteNodeCall(id) ==
  /\ Commit(deleteNode(St, id))
  /\ UNCHANGED <<now, exported, searched>>

DeleteNode == \E id \in KnownIds : deleteNodeCall(id)

moveNodeCall(nodeId, newParentId) ==
  /\ Commit(moveNode(St, nodeId, newParentId))
  /\ UNCHANGED <<now, exported, searched>>

MoveNode ==
  \E nodeId \in KnownIds, newParentId \in KnownIds \cup {NULL} :
    moveNodeCall(nodeId, newParentId)

reorderNodeCall(nodeId, newIndex) ==
  /\ Commit(reorderNode(St, nodeId, newIndex))
  /\ UNCHANGED <<now, exported, searched>>

ReorderNode ==
  \E nodeId \in KnownIds, newIndex \in IndexArgs : reorderNodeCall(nodeId, newIndex)

toggleActiveCall(nodeId) ==
  /\ Commit(toggleActive(St, nodeId))
  /\ UNCHANGED <<now, exported, searched>>

ToggleActive == \E nodeId \in KnownIds : toggleActiveCall(nodeId)

duplicateNodeCall(nodeId) ==
  /\ MapHas(nodes, nodeId) =>
       nextId + Cardinality(subtree(nodes, nodeId)) - 1 <= MaxIds
  /\ Commit(duplicateNode(St, nodeId))
  /\ UNCHANGED <<now, exported, searched>>

DuplicateNode == \E nodeId \in KnownIds : duplicateNodeCall(nodeId)

selectNodeCall(nodeId) ==
  /\ Commit(selectNode(St, nodeId))
  /\ UNCHANGED <<now, exported, searched>>

SelectNode == \E nodeId \in KnownIds \cup {NULL} : selectNodeCall(nodeId)

updateContentCall(updates) ==
  /\ Commit(updateContent(St, updates))
  /\ UNCHANGED <<now, exported, searched>>

UpdateContent == \E updates \in ContentUpdates : updateContentCall(updates)

toggleExpandedCall(nodeId) ==
  /\ Commit(toggleExpanded(St, nodeId))
  /\ UNCHANGED <<now, exported, searched>>

ToggleExpanded == \E nodeId \in KnownIds : toggleExpandedCall(nodeId)

LoadNodes ==
  /\ Commit(loadNodes(St))
  /\ UNCHANGED <<now, exported, searched>>

ExportVault ==
  /\ outcome # Hung
  /\ exported' = exportVault(St).ret
  /\ emitted' = <<>>
  /\ dbCalls' = <<>>
  /\ outcome' = Returned
  /\ ops < MaxOps
  /\ ops' = ops + 1
  /\ UNCHANGED <<nodes, rootNodes, expandedNodes, selectedNodeId, currentContent,
                 searchIndex, dbNodes, dbContent, nextId, now, searched,
                 calls, emitterVars, editor>>

\* the file picked for import is one exportVault wrote
ImportVault ==
  /\ exported # NoSnapshot
  /\ Commit(importVault(St, exported))
  /\ UNCHANGED <<now, exported, searched>>

\* the file picked for import need not be one exportVault wrote
importVaultCall(data) ==
  /\ Commit(importVault(St, data))
  /\ UNCHANGED <<now, exported, searched>>

ImportSnapshot == \E data \in Snapshots : importVaultCall(data)

ImportTangled == \E data \in TangledSnapshots : importVaultCall(data)

\* the Store of a page just opened on the database as it is: the constructor
\* has run, init() has not
constructed ==
  [St EXCEPT !.nodes = <<>>, !.rootNodes = <<>>, !.expandedNodes = {},
             !.selectedNodeId = NULL, !.currentContent = NoContent,
             !.searchIndex = <<>>]

\* the page is reloaded, also when a call of the page before never returned:
\* a new Store is constructed and init() loads the persisted nodes
Reload ==
  LET s == loadNodes(constructed)
  IN /\ ops < MaxOps
     /\ nodes' = s.nodes
     /\ rootNodes' = s.rootNodes
     /\ expandedNodes' = s.expandedNodes
     /\ selectedNodeId' = s.selectedNodeId
     /\ currentContent' = s.currentContent
     /\ searchIndex' = s.searchIndex
     /\ emitted' = s.emitted
     /\ dbCalls' = s.dbCalls
     /\ outcome' = s.outcome
     /\ ops' = ops + 1
     /\ UNCHANGED <<dbNodes, dbContent, nextId, now, exported, searched, calls,
                    emitterVars, editor>>

\* the operations below run while persistence call number failAt fails
importVaultRejected(failAt, data) ==
  LET s == importVault(Failing(failAt), data)
  IN /\ s.outcome = PersistenceError
     /\ Commit(s)
     /\ UNCHANGED <<now, exported, searched>>

\* importVault makes one persistence call
ImportSnapshotRejected == \E data \in Snapshots : importVaultRejected(1, data)

createNodeRejected(failAt, name, type, parentId, template, icon) ==
  LET s == createNode(Failing(failAt), name, type, parentId, template, icon, FALSE)
  IN /\ nextId <= MaxIds
     /\ s.outcome = PersistenceError
     /\ Commit(s)
     /\ UNCHANGED <<now, exported, searched>>

CreateNodeRejected ==
  \E failAt \in Faults, name \in Names, type \in NodeTypes,
     parentId \in KnownIds \cup {NULL}, template \in Templates, icon \in Icons :
    createNodeRejected(failAt, name, type, parentId, template, icon)

updateNodeRejected(failAt, id, updates) ==
  LET s == updateNode(Failing(failAt), id, updates)
  IN /\ s.outcome = PersistenceError
     /\ Commit(s)
     /\ UNCHANGED <<now, exported, searched>>

\* updateNode makes one persistence call
UpdateNodeRejected ==
  \E id \in KnownIds, name \in NewNames : updateNodeRejected(1, id, "name" :> name)

deleteNodeRejected(failAt, id) ==
  LET s == deleteNode(Failing(failAt), id)
  IN /\ s.outcome = PersistenceError
     /\ Commit(s)
     /\ UNCHANGED <<now, exported, searched>>

DeleteNodeRejected ==
  \E failAt \in Faults, id \in KnownIds : deleteNodeRejected(failAt, id)

moveNodeRejected(failAt, nodeId, newParentId) ==
  LET s == moveNode(Failing(failAt), nodeId, newParentId)
  IN /\ s.outcome = PersistenceError
     /\ Commit(s)
     /\ UNCHANGED <<now, exported, searched>>

\* moveNode makes one persistence call
MoveNodeRejected ==
  \E nodeId \in KnownIds, newParentId \in KnownIds \cup {NULL} :
    moveNodeRejected(1, nodeId, newParentId)

searchCall(query, limit) ==
  /\ outcome # Hung
  /\ ops < MaxOps
  /\ searched' = [query |-> query, limit |-> limit,
                  results |-> search(St, query, limit)]
  /\ emitted' = <<>>
  /\ dbCalls' = <<>>
  /\ outcome' = Returned
  /\ ops' = ops + 1
  /\ UNCHANGED <<nodes, rootNodes, expandedNodes, selectedNodeId, currentContent,
                 searchIndex, dbNodes, dbContent, nextId, now, exported,
                 calls, emitterVars, editor>>

Search == \E query \in Queries, limit \in Limits : searchCall(query, limit)

\* whether the suspended call number i may resume: the requests that write
\* one object store complete in the order they were made, reads in any order
mayResume(i) ==
  /\ calls[i].pc # "done"
  /\ calls[i].pc \in {"saveNode", "saveContent"}
     => \A j \in 1..(i - 1) : calls[j].pc # calls[i].pc

\* a createNode call starts, whatever calls are suspended, and suspends at
\* db.saveNode; mapSize is the size of the nodes map it found
createNodeBegin(name, type, parentId, template, icon) ==
  /\ nextId <= MaxIds
  /\ ops < MaxOps
  /\ Assign([St EXCEPT !.nextId = @ + 1])
  /\ calls' = Append(calls, [op |-> "createNode", pc |-> "saveNode",
                             node |-> newNode(St, name, type, parentId, FALSE),
                             template |-> template, icon |-> icon,
                             mapSize |-> Len(nodes)])
  /\ ops' = ops + 1
  /\ UNCHANGED <<now, exported, searched, emitterVars, editor>>

CreateNodeBegin ==
  \E name \in Names, type \in NodeTypes, parentId \in KnownIds \cup {NULL},
     template \in Templates, icon \in Icons :
    createNodeBegin(name, type, parentId, template, icon)

\* db.saveNode returns to the createNode call number i
CreateNodeSaved ==
  \E i \in DOMAIN calls :
    /\ calls[i].op = "createNode"
    /\ calls[i].pc = "saveNode"
    /\ mayResume(i)
    /\ Assign(createNodeSaved(St, calls[i].node, calls[i].template, calls[i].icon))
    /\ calls' = [calls EXCEPT ![i].pc = IF calls[i].node.type = "leaf"
                                        THEN "saveContent" ELSE "done"]
    /\ UNCHANGED <<now, exported, searched, ops, emitterVars, editor>>

\* db.saveContent returns to the createNode call number i
CreateNodeContentSaved ==
  \E i \in DOMAIN calls :
    /\ calls[i].op = "createNode"
    /\ calls[i].pc = "saveContent"
    /\ mayResume(i)
    /\ Assign(createNodeContentSaved(St, calls[i].node, calls[i].template,
                                      calls[i].icon))
    /\ calls' = [calls EXCEPT ![i].pc = "done"]
    /\ UNCHANGED <<now, exported, searched, ops, emitterVars, editor>>

\* a selectNode call starts: the callers do not await it
selectNodeBegin(nodeId) ==
  /\ ops < MaxOps
  /\ Assign(selectNodeBegun(St, nodeId))
  /\ calls' = Append(calls, [op |-> "selectNode",
                             pc |-> IF nodeId # NULL THEN "getContent" ELSE "done",
                             nodeId |-> nodeId])
  /\ ops' = ops + 1
  /\ UNCHANGED <<now, exported, searched, emitterVars, editor>>

SelectNodeBegin == \E nodeId \in KnownIds \cup {NULL} : selectNodeBegin(nodeId)

\* db.getContent returns to the selectNode call number i
SelectNodeLoaded ==
  \E i \in DOMAIN calls :
    /\ calls[i].op = "selectNode"
    /\ calls[i].pc = "getContent"
    /\ mayResume(i)
    /\ Assign(selectNodeLoaded(St, calls[i].nodeId))
    /\ calls' = [calls EXCEPT ![i].pc = "done"]
    /\ UNCHANGED <<now, exported, searched, ops, emitterVars, editor>>

\* a moveNode call starts, whatever calls are suspended: it returns when the
\* node is missing, throws when the descendant check fails and suspends at
\* db.saveNode otherwise; pending are the calls suspended when it started
moveNodeBegin(nodeId, newParentId) ==
  LET s == moveNodeBegun(St, nodeId, newParentId)
      passed == MapHas(nodes, nodeId) /\ s.outcome = Returned
  IN /\ ops < MaxOps
     /\ Assign(s)
     /\ calls' = Append(calls,
          IF passed
          THEN [op |-> "moveNode", pc |-> "saveNode", nodeId |-> nodeId,
                newParentId |-> newParentId, node |-> MapGet(nodes, nodeId),
                updated |-> movedNode(St, MapGet(nodes, nodeId), newParentId),
                pending |-> {i \in DOMAIN calls : calls[i].pc # "done"}]
          ELSE [op |-> "moveNode", pc |-> "done", nodeId |-> nodeId,
                newParentId |-> newParentId])
     /\ ops' = ops + 1
     /\ UNCHANGED <<now, exported, searched, emitterVars, editor>>

MoveNodeBegin ==
  \E nodeId \in KnownIds, newParentId \in KnownIds \cup {NULL} :
    moveNodeBegin(nodeId, newParentId)

\* db.saveNode returns to the moveNode call number i; the call stays in
\* buildSearchIndex when the index rebuild does not return
MoveNodeSaved ==
  \E i \in DOMAIN calls :
    /\ calls[i].op = "moveNode"
    /\ calls[i].pc = "saveNode"
    /\ mayResume(i)
    /\ LET s == moveNodeSaved(St, calls[i].node, calls[i].updated)
       IN /\ Assign(s)
          /\ calls' = [calls EXCEPT ![i].pc = IF s.outcome = Hung
                                              THEN "buildSearchIndex" ELSE "done"]
    /\ UNCHANGED <<now, exported, searched, ops, emitterVars, editor>>

\* an updateContent call starts, whatever calls are suspended: it returns at
\* once when nothing is selected or no content is loaded, and suspends at
\* db.saveContent otherwise; pending are the calls suspended when it started
updateContentBegin(updates) ==
  /\ ops < MaxOps
  /\ Assign(St)
  /\ calls' = Append(calls,
       IF selectedNodeId = NULL \/ currentContent = NoContent
       THEN [op |-> "updateContent", pc |-> "done", updates |-> updates]
       ELSE [op |-> "updateContent", pc |-> "saveContent", updates |-> updates,
             updated |-> updatedContent(St, updates),
             pending |-> {i \in DOMAIN calls : calls[i].pc # "done"}])
  /\ ops' = ops + 1
  /\ UNCHANGED <<now, exported, searched, emitterVars, editor>>

UpdateContentBegin == \E updates \in ContentUpdates : updateContentBegin(updates)

\* db.saveContent returns to the updateContent call number i
UpdateContentSaved ==
  \E i \in DOMAIN calls :
    /\ calls[i].op = "updateContent"
    /\ calls[i].pc = "saveContent"
    /\ mayResume(i)
    /\ Assign(updateContentSaved(St, calls[i].updates, calls[i].updated))
    /\ calls' = [calls EXCEPT ![i].pc = "done"]
    /\ UNCHANGED <<now, exported, searched, ops, emitterVars, editor>>

\* createNode called from the tree when no call is suspended, run to its end
CreateNodeIdle ==
  /\ \A i \in DOMAIN calls : calls[i].pc = "done"
  /\ CreateNode

\* store.selectNode(nodeId) called for a node the tree or the dashboard
\* shows, with the App subscribed to selectionChanged
appSelectNode(nodeId) ==
  /\ ops < MaxOps
  /\ Assign(selectNodeBegun(St, nodeId))
  /\ calls' = Append(calls, [op |-> "selectNode", pc |-> "getContent",
                             nodeId |-> nodeId])
  /\ ops' = ops + 1
  /\ UNCHANGED <<now, exported, searched, emitterVars, editor>>

AppSelectNode == \E nodeId \in MapKeys(nodes) : appSelectNode(nodeId)

\* db.getContent returns to the selectNode call number i: selectionChanged is
\* emitted and onSelectionChanged, for a note, starts Editor.load, which sets
\* Editor.nodeId and suspends at db.getContent
AppSelectionLoaded ==
  \E i \in DOMAIN calls :
    /\ calls[i].op = "selectNode"
    /\ calls[i].pc = "getContent"
    /\ mayResume(i)
    /\ LET nodeId == calls[i].nodeId
           r == onSelectionChanged(selectNodeLoaded(St, nodeId), editor, nodeId)
           ended == [calls EXCEPT ![i].pc = "done"]
       IN /\ Assign(r.store)
          /\ editor' = r.editor
          /\ calls' = IF r.load
                      THEN Append(ended, [op |-> "load", pc |-> "getContent",
                                          nodeId |-> nodeId,
                                          node |-> MapGet(nodes, nodeId)])
                      ELSE ended
    /\ UNCHANGED <<now, exported, searched, ops, emitterVars>>

\* db.getContent returns to the Editor.load call number i
EditorLoaded ==
  \E i \in DOMAIN calls :
    /\ calls[i].op = "load"
    /\ calls[i].pc = "getContent"
    /\ mayResume(i)
    /\ Assign(St)
    /\ editor' = loadedForm(editor, calls[i].node, dbGetContent(St, calls[i].nodeId))
    /\ calls' = [calls EXCEPT ![i].pc = "done"]
    /\ UNCHANGED <<now, exported, searched, ops, emitterVars>>

\* the user types in the title or in the markdown editor of the form shown:
\* the input handler calls scheduleSave, which restarts the debounce timer
Type ==
  /\ outcome # Hung
  /\ ~editor.hidden
  /\ \/ \E title \in NewNames : editor' = [editor EXCEPT !.title = title,
                                                          !.debounceTimer = TRUE]
     \/ \E markdown \in Texts : editor' = [editor EXCEPT !.markdown = markdown,
                                                         !.debounceTimer = TRUE]
  /\ editor' # editor
  /\ UNCHANGED <<storeVars, ops, emitterVars>>

\* the number of Editor.save calls made so far
saves == Cardinality({i \in DOMAIN calls : calls[i].op = "save"})

\* the debounce timer fires, 500 ms after the last input: save() runs up to
\* its first await
TimerFires ==
  /\ editor.debounceTimer
  /\ saves < MaxSaves
  /\ Assign(St)
  /\ editor' = [editor EXCEPT !.debounceTimer = FALSE]
  /\ calls' = Append(calls, saveCall(St, editor, FALSE))
  /\ UNCHANGED <<now, exported, searched, ops, emitterVars>>

\* Ctrl+S, the save button or beforeunload: forceSave clears the timer and
\* runs save() up to its first await
ForceSave ==
  /\ saves < MaxSaves
  /\ Assign(St)
  /\ editor' = [editor EXCEPT !.debounceTimer = FALSE]
  /\ calls' = Append(calls, saveCall(St, editor, FALSE))
  /\ UNCHANGED <<now, exported, searched, ops, emitterVars>>

\* Editor.closeEditor from the close button of the note shown: forceSave()
\* up to its first await, store.selectNode(null) with its notification, then
\* Editor.nodeId = null
CloseEditor ==
  /\ ~editor.hidden
  /\ saves < MaxSaves
  /\ LET r == onSelectionChanged(selectNodeBegun(St, NULL), editor, NULL)
     IN /\ Assign(r.store)
        /\ editor' = [r.editor EXCEPT !.debounceTimer = FALSE, !.nodeId = NULL]
  /\ calls' = calls \o <<saveCall(St, editor, TRUE),
                          [op |-> "selectNode", pc |-> "done", nodeId |-> NULL]>>
  /\ UNCHANGED <<now, exported, searched, ops, emitterVars>>

\* db.saveNode returns to the updateNode call of the save number i: the node
\* is renamed and save goes on to store.updateContent, up to db.saveContent
SaveNodeSaved ==
  \E i \in DOMAIN calls :
    /\ calls[i].op = "save"
    /\ calls[i].pc = "saveNode"
    /\ mayResume(i)
    /\ LET s1 == updateNodeSaved(St, calls[i].updatedNode)
       IN /\ Assign(s1)
          /\ calls' = [calls EXCEPT ![i] =
                         IF s1.outcome # Returned THEN [@ EXCEPT !.pc = "done"]
                         ELSE saveContentCall(s1, @.nodeId, @.title, @.updates,
                                              @.closing)]
    /\ UNCHANGED <<now, exported, searched, ops, emitterVars, editor>>

\* db.saveContent returns to the updateContent call of the save number i
SaveContentSaved ==
  \E i \in DOMAIN calls :
    /\ calls[i].op = "save"
    /\ calls[i].pc = "saveContent"
    /\ mayResume(i)
    /\ Assign(updateContentSaved(St, calls[i].updates, calls[i].updated))
    /\ calls' = [calls EXCEPT ![i].pc = "done"]
    /\ UNCHANGED <<now, exported, searched, ops, emitterVars, editor>>

\* on(event, callback): the caller keeps the function it returns
Subscribe ==
  \E event \in Events, callback \in Callbacks :
    /\ ops < MaxEmitterOps
    /\ listeners' = on(listeners, event, callback)
    /\ subscriptions' = Append(subscriptions, [event |-> event, callback |-> callback,
                                               live |-> TRUE])
    /\ invoked' = NoEmission
    /\ ops' = ops + 1
    /\ UNCHANGED <<storeVars, editor>>

\* the function returned by the on call number i is called: () => this.off(event, callback)
Unsubscribe ==
  \E i \in DOMAIN subscriptions :
    LET event == subscriptions[i].event
        callback == subscriptions[i].callback
    IN /\ ops < MaxEmitterOps
       /\ listeners' = off(listeners, event, callback)
       /\ subscriptions' =
            [k \in DOMAIN subscriptions |->
               IF subscriptions[k].event = event /\ subscriptions[k].callback = callback
               THEN [subscriptions[k] EXCEPT !.live = FALSE]
               ELSE subscriptions[k]]
       /\ invoked' = NoEmission
       /\ ops' = ops + 1
       /\ UNCHANGED <<storeVars, editor>>

\* emit(event, data): every callback has run when it returns
Emit ==
  \E event \in Events, data \in Ids \cup {NULL} :
    /\ ops < MaxEmitterOps
    /\ invoked' = [event |-> event, data |-> data,
                   callbacks |-> invokeListeners(listeners, event, data)]
    /\ ops' = ops + 1
    /\ UNCHANGED <<storeVars, listeners, subscriptions, editor>>

\* the clock advances between operations
Tick ==
  /\ outcome # Hung
  /\ now < MaxClock
  /\ now' = now + 1
  /\ UNCHANGED <<nodes, rootNodes, expandedNodes, selectedNodeId, currentContent,
                 searchIndex, dbNodes, dbContent, nextId, exported, emitted,
                 dbCalls, outcome, searched, ops, calls, emitterVars, editor>>

Next ==
  \/ CreateNode
  \/ UpdateNode
  \/ DeleteNode
  \/ MoveNode
  \/ ReorderNode
  \/ DuplicateNode
  \/ LoadNodes

Spec == Init /\ [][Next]_vars

\* the tree operations together with selection and content editing
NextContent ==
  \/ Next
  \/ SelectNode
  \/ UpdateContent

SpecContent == Init /\ [][NextContent]_vars

\* ... and with export and import of the vault, while the clock runs
NextVault ==
  \/ NextContent
  \/ ExportVault
  \/ ImportVault
  \/ Tick

SpecVault == Init /\ [][NextVault]_vars

\* the tree operations together with search
NextSearch ==
  \/ Next
  \/ Search

SpecSearch == Init /\ [][NextSearch]_vars

\* the operations on the tree, each of which may meet a failing persistence
\* call
NextFaulty ==
  \/ CreateNode
  \/ UpdateNode
  \/ DeleteNode
  \/ MoveNode
  \/ CreateNodeRejected
  \/ UpdateNodeRejected
  \/ DeleteNodeRejected
  \/ MoveNodeRejected

SpecFaulty == Init /\ [][NextFaulty]_vars

\* a vault that is built, browsed and then replaced by an imported file
NextImport ==
  \/ CreateNode
  \/ SelectNode
  \/ ToggleExpanded
  \/ ImportSnapshot
  \/ ImportSnapshotRejected

SpecImport == Init /\ [][NextImport]_vars

\* notes are created, marked active and unmarked, moved and deleted, while
\* the clock runs
NextActive ==
  \/ CreateNode
  \/ ToggleActive
  \/ MoveNode
  \/ DeleteNode
  \/ Tick

SpecActive == Init /\ [][NextActive]_vars

\* the emitter on its own: callbacks subscribe, unsubscribe and are notified
NextEmitter ==
  \/ Subscribe
  \/ Unsubscribe
  \/ Emit

SpecEmitter == Init /\ [][NextEmitter]_vars

\* createNode and selectNode issued without waiting for the calls before them
NextOverlap ==
  \/ CreateNodeBegin
  \/ CreateNodeSaved
  \/ CreateNodeContentSaved
  \/ SelectNodeBegin
  \/ SelectNodeLoaded

SpecOverlap == Init /\ [][NextOverlap]_vars

\* createNode and moveNode issued without waiting for the calls before them
NextOverlapMove ==
  \/ CreateNodeBegin
  \/ CreateNodeSaved
  \/ CreateNodeContentSaved
  \/ MoveNodeBegin
  \/ MoveNodeSaved

SpecOverlapMove == Init /\ [][NextOverlapMove]_vars

\* createNode, selectNode and updateContent issued without waiting for the
\* calls before them
NextOverlapContent ==
  \/ CreateNodeBegin
  \/ CreateNodeSaved
  \/ CreateNodeContentSaved
  \/ SelectNodeBegin
  \/ SelectNodeLoaded
  \/ UpdateContentBegin
  \/ UpdateContentSaved

SpecOverlapContent == Init /\ [][NextOverlapContent]_vars

\* the App with its tree and its Editor: notes are created and selected,
\* the user types, the debounce timer fires, the editor is closed, and
\* selections and saves are issued without waiting for the calls before them
NextEditor ==
  \/ CreateNodeIdle
  \/ AppSelectNode
  \/ AppSelectionLoaded
  \/ EditorLoaded
  \/ Type
  \/ TimerFires
  \/ ForceSave
  \/ CloseEditor
  \/ SaveNodeSaved
  \/ SaveContentSaved

SpecEditor == Init /\ [][NextEditor]_vars

\* vaults are imported from files whatever their parentId links, and the
\* page is reloaded
NextTangled ==
  \/ CreateNode
  \/ ImportSnapshot
  \/ ImportTangled
  \/ LoadNodes
  \/ Reload

SpecTangled == Init /\ [][NextTangled]_vars

(* ------------------------------ properties ---------------------------- *)
siblingGroup(m, parentId) == {i \in DOMAIN m : m[i].parentId = parentId}

\* the orderIndex values of the children of parentId are exactly 0..n-1
contiguous(m, parentId) ==
  LET g == siblingGroup(m, parentId)
  IN /\ {m[i].orderIndex : i \in g} = 0..(Cardinality(g) - 1)
     /\ \A i, j \in g : m[i].orderIndex = m[j].orderIndex => i = j

eventsNamed(name) == {i \in DOMAIN emitted : emitted[i].event = name}

\* C1: starting from the empty (acyclic) tree, after any sequence of
\* createNode, moveNode, reorderNode, deleteNode and duplicateNode calls no
\* node is reachable from itself by following parentId links.
C1_Acyclic ==
  \A i \in DOMAIN nodes : \A k \in 1..Len(nodes) :
    ancestorAt(nodes, nodes[i].id, k) # nodes[i].id

\* a node that has a child of its own was moved under another node
C1_Witness ==
  \E i \in eventsNamed("nodeMoved") :
    /\ MapHas(nodes, emitted[i].data.parentId)
    /\ siblingGroup(nodes, emitted[i].data.id) # {}

\* C2: in every reachable state, moveNode(id, newParentId) with newParentId
\* equal to id or a descendant of id throws before any mutation: it issues no
\* persistence write, emits no notification, and leaves nodes, rootNodes, the
\* search index and the persisted records as they were.
C2_CycleRejected ==
  outcome # Hung =>
    \A nodeId \in MapKeys(nodes) : \A newParentId \in subtree(nodes, nodeId) :
      LET s == moveNode(St, nodeId, newParentId)
      IN /\ s.outcome = CycleError
         /\ s.dbCalls = <<>>
         /\ s.emitted = <<>>
         /\ s.nodes = nodes
         /\ s.rootNodes = rootNodes
         /\ s.searchIndex = searchIndex
         /\ s.dbNodes = dbNodes
         /\ s.dbContent = dbContent

\* a move was rejected in a tree where some node has a child
C2_Witness ==
  /\ outcome = CycleError
  /\ \E i, j \in DOMAIN nodes : nodes[j].parentId = nodes[i].id

\* C3: after createNode, deleteNode or reorderNode the sibling group the call
\* touched has orderIndex values 0..n-1 without duplicates.
C3_ContiguousAfterCall ==
  [][outcome # Hung =>
       /\ \A name \in Names, type \in NodeTypes, parentId \in KnownIds \cup {NULL},
             template \in Templates, icon \in Icons :
            createNodeCall(name, type, parentId, template, icon)
            => contiguous(nodes', parentId)
       /\ \A id \in KnownIds :
            (MapHas(nodes, id) /\ deleteNodeCall(id))
            => contiguous(nodes', parentOf(nodes, id))
       /\ \A id \in KnownIds, newIndex \in IndexArgs :
            (MapHas(nodes, id) /\ reorderNodeCall(id, newIndex))
            => contiguous(nodes', parentOf(nodes, id))]_vars

\* C4: in every reachable state, deleteNode(id) removes id and every
\* descendant from the nodes map and from persisted nodes, leaves no persisted
\* Content keyed by any of them, id is no longer among the children of its
\* former parent, and every node outside the subtree is unchanged.
C4_CascadeDelete ==
  outcome # Hung =>
    \A id \in MapKeys(nodes) :
      LET s == deleteNode(St, id)
          gone == subtree(nodes, id)
          former == getChildren(s.nodes, parentOf(nodes, id))
      IN /\ \A g \in gone :
              /\ ~MapHas(s.nodes, g)
              /\ g \notin DOMAIN s.dbNodes
              /\ g \notin DOMAIN s.dbContent
         /\ \A i \in DOMAIN former : former[i].id # id
         /\ \A i \in DOMAIN nodes :
              nodes[i].id \notin gone
              => /\ MapHas(s.nodes, nodes[i].id)
                 /\ MapGet(s.nodes, nodes[i].id) = nodes[i]
         /\ \A k \in (DOMAIN dbNodes) \ gone :
              k \in DOMAIN s.dbNodes /\ s.dbNodes[k] = dbNodes[k]

\* a delete removed a subtree of three nodes
C4_Witness ==
  /\ Cardinality(eventsNamed("nodeDeleted")) >= 3
  /\ Len(dbCalls) >= 3
  /\ nodes = <<>>

\* C5: in every reachable state, a successful moveNode(id, newParentId) sets
\* the node's parentId to newParentId and its orderIndex to the number of
\* nodes that had that parent before the move; parentId and orderIndex of
\* every other node stay as they were (the old sibling group is not
\* renumbered).
C5_MoveAppends ==
  outcome # Hung =>
    \A nodeId \in MapKeys(nodes) :
      \A newParentId \in (KnownIds \cup {NULL}) \ subtree(nodes, nodeId) :
        LET s == moveNode(St, nodeId, newParentId)
        IN /\ s.outcome = Returned
           /\ MapKeys(s.nodes) = MapKeys(nodes)
           /\ MapGet(s.nodes, nodeId).parentId = newParentId
           /\ MapGet(s.nodes, nodeId).orderIndex =
                Cardinality(siblingGroup(nodes, newParentId))
           /\ \A i \in DOMAIN nodes :
                nodes[i].id # nodeId
                => /\ MapGet(s.nodes, nodes[i].id).parentId = nodes[i].parentId
                   /\ MapGet(s.nodes, nodes[i].id).orderIndex = nodes[i].orderIndex

\* a node was moved behind an existing child, and the group it left has a gap
C5_Witness ==
  \E i \in eventsNamed("nodeMoved") :
    /\ emitted[i].data.orderIndex >= 1
    /\ emitted[i].data.parentId # NULL
    /\ ~contiguous(nodes, NULL)

\* C6: after every completed operation rootNodes holds exactly the ids of
\* the nodes whose parentId is null, each once.
C6_RootNodes ==
  /\ {rootNodes[i] : i \in DOMAIN rootNodes} =
       {nodes[i].id : i \in siblingGroup(nodes, NULL)}
  /\ \A i, j \in DOMAIN rootNodes : rootNodes[i] = rootNodes[j] => i = j

\* a node was moved to the root level next to another root
C6_Witness ==
  /\ \E i \in eventsNamed("nodeMoved") : emitted[i].data.parentId = NULL
  /\ Len(rootNodes) >= 2

\* C7: every node with a non-null parentId has a parent that is in the nodes
\* map and is a folder.
C7_ParentIsFolder ==
  \A i \in DOMAIN nodes :
    nodes[i].parentId # NULL
    => /\ MapHas(nodes, nodes[i].parentId)
       /\ MapGet(nodes, nodes[i].parentId).type = "folder"

C9_NoFolderContent ==
  \A id \in DOMAIN dbContent :
    id \in DOMAIN dbNodes => dbNodes[id].type # "folder"

\* C10: in every reachable state, importVault(exportVault()) changes neither
\* the persisted nodes nor the persisted contents, and the nodes map has the
\* same ids with the same parentId, orderIndex, type and name afterwards.
C10_RoundTrip ==
  outcome # Hung =>
    LET s == importVault(St, exportVault(St).ret)
    IN /\ s.outcome = Returned
       /\ s.dbNodes = dbNodes
       /\ s.dbContent = dbContent
       /\ MapKeys(s.nodes) = MapKeys(nodes)
       /\ \A i \in DOMAIN nodes :
            LET after == MapGet(s.nodes, nodes[i].id)
            IN /\ after.parentId = nodes[i].parentId
               /\ after.orderIndex = nodes[i].orderIndex
               /\ after.type = nodes[i].type
               /\ after.name = nodes[i].name

\* the snapshot exported from a vault of two or more nodes, one a leaf with
\* its content, has been imported into it
C10_Witness ==
  /\ \E i \in DOMAIN dbCalls : dbCalls[i].call = "importAll"
  /\ outcome = Returned
  /\ exported # NoSnapshot
  /\ exported.nodes = StoreGetAll(dbNodes)
  /\ exported.contents = StoreGetAll(dbContent)
  /\ Len(nodes) >= 2
  /\ DOMAIN dbContent # {}

\* whether q is a prefix of str, and whether q occurs in str
isPrefix(q, str) == \E k \in 0..Len(str) : SubSeq(str, 1, k) = q
occursIn(q, str) == \E a, b \in 0..Len(str) : a <= b /\ SubSeq(str, a + 1, b) = q

\* the names along the parentId chain of the node at position i, root first
RECURSIVE namesToRoot(_, _, _)
namesToRoot(m, id, fuel) ==
  IF fuel = 0 \/ id = NULL \/ ~MapHas(m, id) THEN <<>>
  ELSE namesToRoot(m, MapGet(m, id).parentId, fuel - 1) \o <<MapGet(m, id).name>>

\* C12: after every completed operation the search index has exactly one
\* entry per node of the nodes map and no other, and the entry of a node holds
\* its lowercased name, its type and the lowercased ' > '-joined names on its
\* current path from the root.
C12_SearchIndex ==
  /\ Len(searchIndex) = Len(nodes)
  /\ \A i, j \in DOMAIN searchIndex :
       searchIndex[i].id = searchIndex[j].id => i = j
  /\ \A i \in DOMAIN nodes :
       \E j \in DOMAIN searchIndex :
         LET e == searchIndex[j]
         IN /\ e.id = nodes[i].id
            /\ e.type = nodes[i].type
            /\ e.name = toLowerCase(nodes[i].name)
            /\ \A k \in DOMAIN e.name : e.name[k] \notin UpperChars
            /\ e.path = toLowerCase(join(namesToRoot(nodes, nodes[i].id, Len(nodes)),
                                         PathSep))

\* a node that has a parent has just been renamed
C12_Witness ==
  \E i \in eventsNamed("nodeUpdated") :
    /\ emitted[i].data.name \in NewNames
    /\ MapHas(nodes, emitted[i].data.parentId)

ScoreEntries ==
  {[id |-> NULL, name |-> n, type |-> "leaf", path |-> p] :
     n \in {<<"e", "m">>, <<"m", "e">>, <<"e", "m", "e">>, <<"x">>},
     p \in {<<"e", "m">>, <<"x", " ", ">", " ", "m", "e">>, <<"x">>}}

\* C13: for every lowercased query and index entry, calculateSearchScore is
\* 100 when the name equals the query, else 50 when the name starts with it,
\* else 20 when the name contains it, else 0, plus 10 whenever the path
\* contains the query, whichever name tier matched.
C13_Score ==
  \A query \in {toLowerCase(q) : q \in Queries} :
    \A indexed \in ScoreEntries \cup {searchIndex[i] : i \in DOMAIN searchIndex} :
      calculateSearchScore(query, indexed) =
        (IF indexed.name = query THEN 100
         ELSE IF isPrefix(query, indexed.name) THEN 50
         ELSE IF occursIn(query, indexed.name) THEN 20
         ELSE 0)
        + (IF occursIn(query, indexed.path) THEN 10 ELSE 0)

\* a search has reported a node matched by a prefix of its name and by its path
C13_Witness ==
  /\ searched # NoSearch
  /\ \E i \in DOMAIN searched.results :
       /\ searched.results[i].score = 60
       /\ toLowerCase(searched.results[i].node.name) # toLowerCase(searched.query)

\* the score search reports for the node at position i of the nodes map, 0
\* when it is not among the results
reportedScore(query, i) ==
  LET r == search(St, query, Len(nodes))
      at == {k \in DOMAIN r : r[k].node = nodes[i]}
  IN IF at = {} THEN 0 ELSE r[CHOOSE k \in at : TRUE].score

\* C14 (as stated): a node whose lowercased name equals the query is reported
\* with score 100 and a node whose name starts with, but does not equal, the
\* query with score 50.
C14_ExactIs100 ==
  \A query \in Queries : \A i \in DOMAIN nodes :
    trim(query) # <<>> =>
      LET name == toLowerCase(nodes[i].name)
          q == toLowerCase(query)
      IN /\ name = q => reportedScore(query, i) = 100
         /\ (name # q /\ isPrefix(q, name)) => reportedScore(query, i) = 50

\* C14 (amended): the path of a node ends with its name, so the bonus for the
\* path always adds to a match by name: a node whose lowercased name equals
\* the query is reported with score 110 and a node whose name starts with,
\* but does not equal, the query with score 60.
C14_ScoresWithPathBonus ==
  \A query \in Queries : \A i \in DOMAIN nodes :
    trim(query) # <<>> =>
      LET name == toLowerCase(nodes[i].name)
          q == toLowerCase(query)
      IN /\ name = q => reportedScore(query, i) = 110
         /\ (name # q /\ isPrefix(q, name)) => reportedScore(query, i) = 60

\* a search has reported one node whose name equals the query and one whose
\* name only starts with it
C14_Witness ==
  /\ searched # NoSearch
  /\ \E i, j \in DOMAIN searched.results :
       /\ toLowerCase(searched.results[i].node.name) = toLowerCase(searched.query)
       /\ searched.results[i].score = 110
       /\ toLowerCase(searched.results[j].node.name) # toLowerCase(searched.query)
       /\ searched.results[j].score = 60

\* where the entry of the node id stands in the search index
indexPosition(id) == CHOOSE j \in DOMAIN searchIndex : searchIndex[j].id = id

\* C15: search(query, limit) returns at most limit results, none with score
\* 0, in non-increasing order of score, results of equal score in the order
\* of their entries in the search index, and every node matched by its name
\* before every node matched through its path only.
C15_SearchResults ==
  \A query \in Queries, limit \in Limits :
    LET r == search(St, query, limit)
        q == toLowerCase(query)
        byName(k) == occursIn(q, toLowerCase(r[k].node.name))
    IN /\ Len(r) <= limit
       /\ \A k \in DOMAIN r : r[k].score > 0
       /\ \A k, l \in DOMAIN r :
            k < l => /\ r[k].score >= r[l].score
                     /\ r[k].score = r[l].score
                        => indexPosition(r[k].node.id) < indexPosition(r[l].node.id)
                     /\ ~(byName(l) /\ ~byName(k))

\* a search was cut to its limit, and the result it kept is not the first
\* match in the index
C15_Witness ==
  /\ searched # NoSearch
  /\ searched.limit >= 1
  /\ Len(searched.results) = searched.limit
  /\ \E j \in DOMAIN searchIndex :
       /\ j < indexPosition(searched.results[1].node.id)
       /\ calculateSearchScore(toLowerCase(searched.query), searchIndex[j]) > 0
       /\ \A k \in DOMAIN searched.results :
            searched.results[k].node.id # searchIndex[j].id

\* C16: search(q) returns what search returns for q with leading and trailing
\* whitespace removed, for every limit, and nothing when q is empty after
\* trimming.
C16_TrimmedQuery ==
  \A query \in Queries, limit \in Limits :
    /\ search(St, query, limit) = search(St, trim(query), limit)
    /\ trim(query) = <<>> => search(St, query, limit) = <<>>

\* ids that are not in the nodes map: deleted ones and ones never handed out
UnknownIds == (Ids \cup {MaxIds + 1}) \ MapKeys(nodes)

noOp(s) ==
  /\ s.outcome = Returned
  /\ s.dbCalls = <<>>
  /\ s.emitted = <<>>
  /\ s.nodes = nodes
  /\ s.rootNodes = rootNodes
  /\ s.selectedNodeId = selectedNodeId
  /\ s.currentContent = currentContent
  /\ s.searchIndex = searchIndex
  /\ s.dbNodes = dbNodes
  /\ s.dbContent = dbContent

\* C17: in every reachable state, updateNode, deleteNode, moveNode,
\* reorderNode, toggleActive and duplicateNode called with an id that is not
\* in the nodes map do not throw, issue no persistence call, emit nothing and
\* leave memory and storage as they were; updateNode and toggleActive return
\* null.
C17_UnknownIdNoOp ==
  outcome # Hung =>
    \A id \in UnknownIds :
      /\ \A name \in NewNames :
           LET s == updateNode(St, id, "name" :> name)
           IN noOp(s) /\ s.ret = NULL
      /\ noOp(deleteNode(St, id))
      /\ \A newParentId \in KnownIds \cup {NULL} : noOp(moveNode(St, id, newParentId))
      /\ \A newIndex \in IndexArgs : noOp(reorderNode(St, id, newIndex))
      /\ LET s == toggleActive(St, id) IN noOp(s) /\ s.ret = NULL
      /\ noOp(duplicateNode(St, id))

\* every node has been deleted, and the call made after that, which named
\* an id no longer in the map, did nothing
C17_Witness ==
  /\ nodes = <<>>
  /\ nextId > 1
  /\ ops >= 3
  /\ emitted = <<>>
  /\ dbCalls = <<>>
  /\ outcome = Returned
  /\ searched = NoSearch

range(f) == {f[k] : k \in DOMAIN f}

\* C11: in every reachable state, a completed importVault(snapshot) leaves in
\* storage exactly the snapshot's nodes and contents, in memory a nodes map
\* and rootNodes built from the snapshot alone, and selection, current
\* content and the expanded set cleared; an importVault that fails leaves
\* both object stores as they were before it.
C11_ImportReplaces ==
  outcome # Hung =>
    \A data \in Snapshots, failAt \in {NULL, 1} :
      LET s == importVault(Failing(failAt), data)
          ns == range(data.nodes)
      IN /\ s.outcome = Returned =>
              /\ range(s.dbNodes) = ns
              /\ range(s.dbContent) = range(data.contents)
              /\ range(s.nodes) = ns
              /\ Len(s.nodes) = Cardinality(ns)
              /\ range(s.rootNodes) = {n.id : n \in {x \in ns : x.parentId = NULL}}
              /\ Len(s.rootNodes) = Cardinality(range(s.rootNodes))
              /\ s.selectedNodeId = NULL
              /\ s.currentContent = NoContent
              /\ s.expandedNodes = {}
         /\ s.outcome # Returned =>
              /\ s.dbNodes = dbNodes
              /\ s.dbContent = dbContent

rejectedCleanly(s) ==
  /\ s.outcome = PersistenceError
  /\ Len(s.dbCalls) = 1
  /\ s.emitted = <<>>
  /\ s.nodes = nodes
  /\ s.rootNodes = rootNodes
  /\ s.searchIndex = searchIndex
  /\ s.dbNodes = dbNodes

\* C18: in every reachable state, an updateNode or a moveNode whose
\* persistence write fails ends with that error after a single write
\* attempt, emits nothing, and leaves nodes, rootNodes, the search index and
\* the persisted nodes as they were.
C18_WriteFailure ==
  outcome # Hung =>
    \A id \in MapKeys(nodes) :
      /\ \A name \in NewNames :
           rejectedCleanly(updateNode(Failing(1), id, "name" :> name))
      /\ \A newParentId \in (KnownIds \cup {NULL}) \ subtree(nodes, id) :
           rejectedCleanly(moveNode(Failing(1), id, newParentId))

\* the write of a node that is in the nodes map has just failed
C18_Witness ==
  /\ outcome = PersistenceError
  /\ Len(dbCalls) = 1
  /\ dbCalls[1].call = "saveNode"
  /\ MapHas(nodes, dbCalls[1].key)
  /\ Len(nodes) >= 2

\* C19: in every reachable state, a createNode that completes has persisted
\* the node record and, for a leaf, its Content record, and a createNode
\* either of whose persistence writes fails leaves the new node out of the
\* nodes map and out of rootNodes.
C19_PersistedBeforeVisible ==
  outcome # Hung =>
    \A failAt \in Faults \cup {NULL}, name \in Names, type \in NodeTypes,
       parentId \in KnownIds \cup {NULL}, template \in Templates, icon \in Icons :
      LET s == createNode(Failing(failAt), name, type, parentId, template, icon, FALSE)
      IN /\ s.outcome = Returned =>
              /\ nextId \in DOMAIN s.dbNodes
              /\ type = "leaf" => nextId \in DOMAIN s.dbContent
         /\ s.outcome = PersistenceError =>
              /\ ~MapHas(s.nodes, nextId)
              /\ s.rootNodes = rootNodes

\* C20: in every reachable state, a deleteNode one of whose persistence calls
\* fails ends with that error; every node it has removed from memory by then
\* is gone from storage together with its Content, every node still in memory
\* is still in storage, and the node whose delete failed and its ancestors
\* are in memory and in storage as they were.
C20_CascadeFailure ==
  outcome # Hung =>
    \A id \in MapKeys(nodes), failAt \in Faults :
      LET s == deleteNode(Failing(failAt), id)
          failedId == s.dbCalls[Len(s.dbCalls)].key
      IN s.outcome # Returned =>
           /\ s.outcome = PersistenceError
           /\ \A i \in DOMAIN nodes :
                IF MapHas(s.nodes, nodes[i].id)
                THEN /\ nodes[i].id \in DOMAIN s.dbNodes
                     /\ nodes[i].id \in DOMAIN dbContent
                        => nodes[i].id \in DOMAIN s.dbContent
                ELSE /\ nodes[i].id \notin DOMAIN s.dbNodes
                     /\ nodes[i].id \notin DOMAIN s.dbContent
           /\ \A k \in 0..Len(nodes) :
                LET a == ancestorAt(nodes, failedId, k)
                IN MapHas(nodes, a)
                   => /\ MapHas(s.nodes, a)
                      /\ MapGet(s.nodes, a) = MapGet(nodes, a)
                      /\ s.dbNodes[a] = dbNodes[a]

\* a cascading delete has removed a child and then failed on its parent
C20_Witness ==
  /\ outcome = PersistenceError
  /\ Len(dbCalls) >= 2
  /\ dbCalls[Len(dbCalls)].call = "deleteNode"
  /\ MapHas(nodes, dbCalls[Len(dbCalls)].key)
  /\ eventsNamed("nodeDeleted") # {}
  /\ \A i \in eventsNamed("nodeDeleted") : ~MapHas(nodes, emitted[i].data)

\* the createNode calls among the calls issued
createCalls == {i \in DOMAIN calls : calls[i].op = "createNode"}

\* call j started while call i, for the same parent, was suspended at its
\* db.saveNode and nothing had been put into the nodes map in between
overlapping(i, j) ==
  /\ i < j
  /\ calls[i].node.parentId = calls[j].node.parentId
  /\ calls[i].mapSize = calls[j].mapSize

\* C21: when a createNode call starts while an earlier createNode call for
\* the same parent is suspended at its persistence write, both have read the
\* same sibling count, and once both have put their node into the nodes map
\* the map holds two siblings with the same orderIndex.
C21_OverlapDuplicates ==
  \A i, j \in createCalls :
    overlapping(i, j) =>
      /\ calls[i].node.orderIndex = calls[j].node.orderIndex
      /\ (calls[i].pc # "saveNode" /\ calls[j].pc # "saveNode") =>
           \E a, b \in DOMAIN nodes :
             /\ nodes[a] = calls[i].node
             /\ nodes[b] = calls[j].node
             /\ a # b
             /\ nodes[a].parentId = nodes[b].parentId
             /\ nodes[a].orderIndex = nodes[b].orderIndex

\* two overlapping createNode calls for the same parent have both completed
C21_Witness ==
  \E i, j \in createCalls :
    /\ overlapping(i, j)
    /\ calls[i].pc = "done"
    /\ calls[j].pc = "done"
    /\ ~contiguous(nodes, calls[i].node.parentId)

\* the selectNode calls among the calls issued
selectCalls == {i \in DOMAIN calls : calls[i].op = "selectNode"}

\* C27: once every selectNode call issued has completed, selectedNodeId is
\* the id given to the call issued last and currentContent is the Content of
\* that node, or both are null after selectNode(null); also when a call was
\* issued before an earlier call's content load returned.
C27_LastSelectionWins ==
  (selectCalls # {} /\ \A i \in DOMAIN calls : calls[i].pc = "done") =>
    LET last == CHOOSE i \in selectCalls : \A j \in selectCalls : j <= i
    IN /\ selectedNodeId = calls[last].nodeId
       /\ IF selectedNodeId = NULL THEN currentContent = NoContent
          ELSE /\ currentContent # NoContent
               /\ currentContent.nodeId = selectedNodeId

\* whether the search index idx has an entry for the node id
indexed(idx, id) == \E j \in DOMAIN idx : idx[j].id = id

\* the last two notifications of s are first and then nodesChanged, and the
\* callbacks of both found the store as s leaves it
notifiedLast(s, first) ==
  LET n == Len(s.emitted)
  IN /\ n >= 2
     /\ s.emitted[n - 1] = first
     /\ s.emitted[n] = [event |-> "nodesChanged", data |-> NULL]
     /\ s.seen[n - 1] = visible(s)
     /\ s.seen[n] = visible(s)

\* C22: in every reachable state, a successful createNode emits
\* nodeCreated(node) and then nodesChanged and nothing else, a successful
\* moveNode nodeMoved(node) and then nodesChanged and nothing else, and a
\* successful deleteNode ends with nodeDeleted(id) and then nodesChanged; the
\* callbacks of these notifications find the nodes map, rootNodes and the
\* search index as the operation leaves them, with the node created, moved
\* or removed.
C22_NotifiedAfterChange ==
  outcome # Hung =>
    /\ \A name \in Names, type \in NodeTypes, parentId \in KnownIds \cup {NULL},
          template \in Templates, icon \in Icons :
         LET s == createNode(St, name, type, parentId, template, icon, FALSE)
         IN s.outcome = Returned =>
              /\ Len(s.emitted) = 2
              /\ notifiedLast(s, [event |-> "nodeCreated", data |-> s.ret])
              /\ s.ret.id = nextId
              /\ MapHas(s.nodes, nextId) /\ MapGet(s.nodes, nextId) = s.ret
              /\ (parentId = NULL) <=> (nextId \in range(s.rootNodes))
              /\ indexed(s.searchIndex, nextId)
    /\ \A id \in MapKeys(nodes) :
         LET s == deleteNode(St, id)
         IN s.outcome = Returned =>
              /\ notifiedLast(s, [event |-> "nodeDeleted", data |-> id])
              /\ ~MapHas(s.nodes, id)
              /\ id \notin range(s.rootNodes)
              /\ ~indexed(s.searchIndex, id)
              /\ \A k \in DOMAIN s.emitted :
                   s.emitted[k].event = "nodeDeleted" =>
                     /\ ~MapHas(s.seen[k].nodes, s.emitted[k].data)
                     /\ s.emitted[k].data \notin range(s.seen[k].rootNodes)
                     /\ ~indexed(s.seen[k].searchIndex, s.emitted[k].data)
    /\ \A nodeId \in MapKeys(nodes) :
         \A newParentId \in (KnownIds \cup {NULL}) \ subtree(nodes, nodeId) :
           LET s == moveNode(St, nodeId, newParentId)
               moved == MapGet(s.nodes, nodeId)
           IN s.outcome = Returned =>
                /\ Len(s.emitted) = 2
                /\ notifiedLast(s, [event |-> "nodeMoved", data |-> moved])
                /\ moved.parentId = newParentId
                /\ (newParentId = NULL) <=> (nodeId \in range(s.rootNodes))
                /\ \E j \in DOMAIN s.searchIndex :
                     s.searchIndex[j] = indexEntry(s.nodes, moved)

\* a node has just been created under a parent and is in the search index
C22_Witness ==
  /\ outcome = Returned
  /\ Len(emitted) = 2
  /\ emitted[1].event = "nodeCreated"
  /\ emitted[2].event = "nodesChanged"
  /\ MapHas(nodes, emitted[1].data.parentId)
  /\ indexed(searchIndex, emitted[1].data.id)

\* C23: in every reachable state, duplicating any node X and then deleting
\* the duplicate returned leaves the nodes map with the same nodes (parentId,
\* orderIndex, name and every other field), the same rootNodes, and the same
\* persisted node and Content records as before the duplicate call.
C23_DuplicateThenDelete ==
  outcome # Hung =>
    \A X \in MapKeys(nodes) :
      LET d == duplicateNode(St, X)
          s == deleteNode(d, d.ret.id)
      IN /\ d.outcome = Returned
         /\ s.outcome = Returned
         /\ Len(d.nodes) = Len(nodes) + Cardinality(subtree(nodes, X))
         /\ s.nodes = nodes
         /\ s.rootNodes = rootNodes
         /\ s.dbNodes = dbNodes
         /\ s.dbContent = dbContent

\* a leaf with its Content has just been duplicated, and deleting the
\* duplicate takes it and its Content away again
C23_Witness ==
  /\ outcome = Returned
  /\ emitted # <<>>
  /\ emitted[1].event = "nodeCreated"
  /\ LET copy == emitted[1].data
         s == deleteNode(St, copy.id)
     IN /\ Len(copy.name) > Len(CopySuffix)
        /\ SubSeq(copy.name, Len(copy.name) - Len(CopySuffix) + 1, Len(copy.name))
             = CopySuffix
        /\ copy.type = "leaf"
        /\ copy.id \in DOMAIN dbContent
        /\ Len(s.nodes) = Len(nodes) - 1
        /\ copy.id \notin DOMAIN s.dbContent

\* whether, in the store s, the subtree of the node copy is a copy of the
\* subtree the node orig has now: same type, same name up to the suffix,
\* for a leaf the same Content under the new key, and children that are
\* copies of the children, in the same order
RECURSIVE copyOf(_, _, _, _)
copyOf(s, orig, copy, suffix) ==
  LET a == MapGet(nodes, orig)
      b == MapGet(s.nodes, copy)
      as == getChildren(nodes, orig)
      bs == getChildren(s.nodes, copy)
  IN /\ b.type = a.type
     /\ b.name = a.name \o suffix
     /\ a.type = "leaf" =>
          /\ copy \in DOMAIN s.dbContent
          /\ s.dbContent[copy] = [dbGetContent(St, orig) EXCEPT !.nodeId = copy]
     /\ Len(bs) = Len(as)
     /\ \A k \in DOMAIN as : copyOf(s, as[k].id, bs[k].id, <<>>)

\* C24: in every reachable state, duplicateNode(id) returns a new node named
\* as the original followed by ' (Copy)', of the same type and under the same
\* parent; the subtree under it has as many nodes as the original's, each a
\* copy of one descendant with its name and type, the children of each copy
\* in the order of the originals, and each copied leaf's Content equal to the
\* original's except for nodeId; the nodes there were and their persisted
\* records are unchanged.
C24_DuplicateSubtree ==
  outcome # Hung =>
    \A id \in MapKeys(nodes) :
      LET s == duplicateNode(St, id)
          new == s.ret
      IN /\ s.outcome = Returned
         /\ ~MapHas(nodes, new.id)
         /\ MapHas(s.nodes, new.id) /\ MapGet(s.nodes, new.id) = new
         /\ new.parentId = MapGet(nodes, id).parentId
         /\ copyOf(s, id, new.id, CopySuffix)
         /\ Cardinality(subtree(s.nodes, new.id)) = Cardinality(subtree(nodes, id))
         /\ Len(s.nodes) = Len(nodes) + Cardinality(subtree(nodes, id))
         /\ \A i \in DOMAIN nodes : s.nodes[i] = nodes[i]
         /\ \A k \in DOMAIN dbNodes : s.dbNodes[k] = dbNodes[k]
         /\ \A k \in DOMAIN dbContent : s.dbContent[k] = dbContent[k]

\* a leaf whose Content had been edited has just been duplicated
C24_Witness ==
  /\ outcome = Returned
  /\ \E i \in eventsNamed("nodeCreated") :
       LET copy == emitted[i].data
       IN /\ copy.id \in DOMAIN dbContent
          /\ \E orig \in DOMAIN dbContent :
               /\ orig # copy.id
               /\ dbContent[orig] # getDefaultContent(orig)
               /\ dbContent[copy.id] = [dbContent[orig] EXCEPT !.nodeId = copy.id]
               /\ MapGet(nodes, copy.id).name = MapGet(nodes, orig).name \o CopySuffix

\* the ids of the records of seq other than id, in order
idsWithout(seq, id) ==
  LET rest == SelectSeq(seq, LAMBDA n : n.id # id)
  IN [k \in DOMAIN rest |-> rest[k].id]

\* the persistence calls of s that name key
callsFor(s, key) == {k \in DOMAIN s.dbCalls : s.dbCalls[k].key = key}

\* C25: in every reachable state, for a node with n siblings (itself
\* included) and 0 <= newIndex < n, after reorderNode(id, newIndex) the node
\* is at position newIndex of getChildren(parent), the other siblings keep
\* their relative order, every sibling's orderIndex equals its position,
\* exactly the siblings whose orderIndex changed are written to persistence,
\* once each, and no notification other than nodesChanged is emitted.
C25_Reorder ==
  outcome # Hung =>
    \A id \in MapKeys(nodes) :
      LET parentId == MapGet(nodes, id).parentId
          before == getChildren(nodes, parentId)
      IN \A newIndex \in 0..(Len(before) - 1) :
           LET s == reorderNode(St, id, newIndex)
               after == getChildren(s.nodes, parentId)
           IN /\ s.outcome = Returned
              /\ Len(after) = Len(before)
              /\ after[newIndex + 1].id = id
              /\ idsWithout(after, id) = idsWithout(before, id)
              /\ \A k \in DOMAIN after : after[k].orderIndex = k - 1
              /\ \A k \in DOMAIN before :
                   Cardinality(callsFor(s, before[k].id)) =
                     IF MapGet(s.nodes, before[k].id).orderIndex = before[k].orderIndex
                     THEN 0 ELSE 1
              /\ \A k \in DOMAIN s.dbCalls :
                   /\ s.dbCalls[k].call = "saveNode"
                   /\ \E j \in DOMAIN before : before[j].id = s.dbCalls[k].key
              /\ Len(s.emitted) <= 1
              /\ \A k \in DOMAIN s.emitted :
                   s.emitted[k] = [event |-> "nodesChanged", data |-> NULL]

\* C26: in every reachable state, reorderNode(id, newIndex) with newIndex
\* negative or not less than the number of siblings changes no node's
\* orderIndex, persists nothing, and leaves the order of the siblings that
\* getChildren returns as it was.
C26_OutOfRangeNoOp ==
  outcome # Hung =>
    \A id \in MapKeys(nodes) :
      LET parentId == MapGet(nodes, id).parentId
          before == getChildren(nodes, parentId)
      IN \A newIndex \in IndexArgs :
           (newIndex < 0 \/ newIndex >= Len(before)) =>
             LET s == reorderNode(St, id, newIndex)
             IN /\ s.dbCalls = <<>>
                /\ \A i \in DOMAIN nodes :
                     MapGet(s.nodes, nodes[i].id).orderIndex = nodes[i].orderIndex
                /\ getChildren(s.nodes, parentId) = before

\* C28: in every reachable state, updateContent with nothing selected issues
\* no persistence call, emits nothing and changes nothing; otherwise it
\* issues one persistence call, the write of the Content record keyed by
\* selectedNodeId, changes no other persisted record, emits contentChanged
\* with the record written and nothing else, and leaves the nodes map (every
\* node's updatedAt included), rootNodes and the selection as they were.
C28_ContentOnly ==
  outcome # Hung =>
    \A updates \in ContentUpdates :
      LET s == updateContent(St, updates)
      IN IF selectedNodeId = NULL THEN noOp(s)
         ELSE /\ s.dbCalls = <<[call |-> "saveContent", key |-> selectedNodeId]>>
              /\ selectedNodeId \in DOMAIN s.dbContent
              /\ s.dbContent[selectedNodeId].nodeId = selectedNodeId
              /\ \A f \in DOMAIN updates :
                   s.dbContent[selectedNodeId][f] = updates[f]
              /\ \A k \in (DOMAIN dbContent) \ {selectedNodeId} :
                   k \in DOMAIN s.dbContent /\ s.dbContent[k] = dbContent[k]
              /\ DOMAIN s.dbContent = DOMAIN dbContent \cup {selectedNodeId}
              /\ s.dbNodes = dbNodes
              /\ s.emitted = <<[event |-> "contentChanged",
                                data |-> s.dbContent[selectedNodeId]]>>
              /\ s.currentContent = s.dbContent[selectedNodeId]
              /\ s.nodes = nodes
              /\ s.rootNodes = rootNodes
              /\ s.selectedNodeId = selectedNodeId

\* the Content of the selected leaf has just been updated while another leaf
\* keeps the Content it was created with
C28_Witness ==
  /\ outcome = Returned
  /\ selectedNodeId # NULL
  /\ emitted = <<[event |-> "contentChanged", data |-> currentContent]>>
  /\ dbCalls = <<[call |-> "saveContent", key |-> selectedNodeId]>>
  /\ MapHas(nodes, selectedNodeId)
  /\ \E k \in DOMAIN dbContent :
       /\ k # selectedNodeId
       /\ dbContent[k] = getDefaultContent(k)
       /\ dbContent[selectedNodeId] # getDefaultContent(selectedNodeId)

\* C29: in every reachable state, toggleActive(id) on a folder changes
\* nothing, persists nothing, emits nothing and returns null; on a leaf it
\* negates active and sets updatedAt and changes no other field and no other
\* node, persists the node with one write, emits nodeUpdated and then
\* activeChanged(id) and nothing else, and a second toggleActive(id) gives
\* active its first value back.
C29_ToggleActive ==
  outcome # Hung =>
    \A id \in MapKeys(nodes) :
      LET node == MapGet(nodes, id)
          s == toggleActive(St, id)
          toggled == [node EXCEPT !.active = ~node.active, !.updatedAt = now]
      IN IF node.type = "folder" THEN noOp(s) /\ s.ret = NULL
         ELSE /\ s.outcome = Returned
              /\ s.ret = toggled
              /\ MapGet(s.nodes, id) = toggled
              /\ Len(s.nodes) = Len(nodes)
              /\ \A i \in DOMAIN nodes : nodes[i].id # id => s.nodes[i] = nodes[i]
              /\ s.rootNodes = rootNodes
              /\ s.dbCalls = <<[call |-> "saveNode", key |-> id]>>
              /\ s.dbNodes[id] = toggled
              /\ \A k \in (DOMAIN dbNodes) \ {id} : s.dbNodes[k] = dbNodes[k]
              /\ s.dbContent = dbContent
              /\ s.emitted = <<[event |-> "nodeUpdated", data |-> toggled],
                               [event |-> "activeChanged", data |-> id]>>
              /\ MapGet(toggleActive(s, id).nodes, id).active = node.active

\* a leaf has been marked active and has just been unmarked again, later
\* than it was created, next to a folder
C29_Witness ==
  /\ outcome = Returned
  /\ Len(emitted) = 2
  /\ emitted[1].event = "nodeUpdated"
  /\ emitted[2].event = "activeChanged"
  /\ MapHas(nodes, emitted[2].data)
  /\ LET node == MapGet(nodes, emitted[2].data)
     IN /\ node.type = "leaf"
        /\ ~node.active
        /\ node.updatedAt > node.createdAt
  /\ \E i \in DOMAIN nodes : nodes[i].type = "folder"

\* the on calls for event whose callback has not been unsubscribed from it
\* since, oldest first
inForce(event) == SelectSeq(subscriptions, LAMBDA sub : sub.live /\ sub.event = event)

\* C30: when emit(event, data) returns it has invoked the callbacks
\* subscribed to that event and not unsubscribed from it since, in the order
\* of their subscription, and no other: none that is subscribed to another
\* event only, and none whose unsubscribe function for that event has been
\* called and which has not subscribed to it again.
C30_Emit ==
  invoked # NoEmission =>
    LET subs == inForce(invoked.event)
    IN /\ invoked.callbacks = [k \in DOMAIN subs |-> subs[k].callback]
       /\ \A k \in DOMAIN invoked.callbacks :
            \E i \in DOMAIN subscriptions :
              /\ subscriptions[i].event = invoked.event
              /\ subscriptions[i].callback = invoked.callbacks[k]
              /\ subscriptions[i].live
       /\ \A i \in DOMAIN subscriptions :
            (subscriptions[i].event = invoked.event /\ ~subscriptions[i].live)
            => \A k \in DOMAIN invoked.callbacks :
                 invoked.callbacks[k] # subscriptions[i].callback
                 \/ \E j \in DOMAIN subscriptions :
                      /\ j > i
                      /\ subscriptions[j] = [subscriptions[i] EXCEPT !.live = TRUE]

\* an emit has invoked two callbacks in the order they subscribed, after a
\* callback had unsubscribed from the event and while a callback is
\* subscribed to the other event
C30_Witness ==
  /\ invoked # NoEmission
  /\ Len(invoked.callbacks) = 2
  /\ invoked.callbacks[1] # invoked.callbacks[2]
  /\ \E i \in DOMAIN subscriptions :
       subscriptions[i].event = invoked.event /\ ~subscriptions[i].live
  /\ \E i \in DOMAIN subscriptions :
       subscriptions[i].event # invoked.event /\ subscriptions[i].live

\* C31: as long as every operation has completed, the persisted node records
\* are the records of the nodes map, field for field, one per id, and a
\* loadNodes would leave every id of the map with the record it has.
C31_PersistedEqualsMemory ==
  outcome # Hung =>
    /\ range(dbNodes) = range(nodes)
    /\ \A k \in DOMAIN dbNodes : dbNodes[k].id = k
    /\ \A i, j \in DOMAIN nodes : nodes[i].id = nodes[j].id => i = j
    /\ LET s == loadNodes(St)
       IN /\ MapKeys(s.nodes) = MapKeys(nodes)
          /\ Len(s.nodes) = Len(nodes)
          /\ \A i \in DOMAIN nodes : MapGet(s.nodes, nodes[i].id) = nodes[i]

\* a reorder has just renumbered two siblings, later than they were created
C31_Witness ==
  /\ outcome = Returned
  /\ emitted = <<[event |-> "nodesChanged", data |-> NULL]>>
  /\ Len(dbCalls) >= 2
  /\ \A k \in DOMAIN dbCalls :
       /\ dbCalls[k].call = "saveNode"
       /\ MapHas(nodes, dbCalls[k].key)
       /\ MapGet(nodes, dbCalls[k].key).updatedAt > MapGet(nodes, dbCalls[k].key).createdAt

\* whether the node id is the last of the children of parentId in the store
\* s and has a greater orderIndex than every other child
appendedLast(s, parentId, id) ==
  LET children == getChildren(s.nodes, parentId)
  IN /\ children # <<>>
     /\ children[Len(children)].id = id
     /\ \A k \in 1..(Len(children) - 1) :
          children[k].orderIndex < children[Len(children)].orderIndex

\* C32: in every reachable state, after a successful createNode under P,
\* moveNode into P or duplicateNode of a child of P, the new or moved node is
\* the last element of getChildren(P) and its orderIndex is greater than that
\* of every other child of P.
C32_AppendedLast ==
  outcome # Hung =>
    /\ \A name \in Names, type \in NodeTypes, parentId \in KnownIds \cup {NULL},
          template \in Templates, icon \in Icons :
         LET s == createNode(St, name, type, parentId, template, icon, FALSE)
         IN s.outcome = Returned => appendedLast(s, parentId, s.ret.id)
    /\ \A nodeId \in MapKeys(nodes) :
         \A newParentId \in (KnownIds \cup {NULL}) \ subtree(nodes, nodeId) :
           LET s == moveNode(St, nodeId, newParentId)
           IN s.outcome = Returned => appendedLast(s, newParentId, nodeId)
    /\ \A nodeId \in MapKeys(nodes) :
         LET s == duplicateNode(St, nodeId)
         IN s.outcome = Returned
            => appendedLast(s, MapGet(nodes, nodeId).parentId, s.ret.id)

\* C33: in every reachable state, after deleteNode(id), if the selected node
\* was id or a descendant of id then selectedNodeId and currentContent are
\* null and selectionChanged(null) was emitted; otherwise selection and
\* current content are unchanged and no selectionChanged was emitted; in
\* both cases selectedNodeId is not a node the delete removed.
C33_SelectionAfterDelete ==
  outcome # Hung =>
    \A id \in MapKeys(nodes) :
      LET s == deleteNode(St, id)
          gone == subtree(nodes, id)
          cleared == {k \in DOMAIN s.emitted :
                        s.emitted[k] = [event |-> "selectionChanged", data |-> NULL]}
      IN /\ s.outcome = Returned
         /\ IF selectedNodeId \in gone
            THEN /\ s.selectedNodeId = NULL
                 /\ s.currentContent = NoContent
                 /\ cleared # {}
            ELSE /\ s.selectedNodeId = selectedNodeId
                 /\ s.currentContent = currentContent
                 /\ \A k \in DOMAIN s.emitted : s.emitted[k].event # "selectionChanged"
         /\ s.selectedNodeId \notin gone

\* a folder has just been deleted while a node inside it was selected
C33_Witness ==
  /\ outcome = Returned
  /\ selectedNodeId = NULL
  /\ currentContent = NoContent
  /\ Cardinality(eventsNamed("nodeDeleted")) >= 2
  /\ emitted[1] = [event |-> "selectionChanged", data |-> NULL]

\* C34: after every completed operation the ids in rootNodes are in the
\* order of getChildren(null), the root nodes ascending by orderIndex.
C34_RootOrder ==
  outcome # Hung =>
    LET roots == getChildren(nodes, NULL)
    IN rootNodes = [k \in DOMAIN roots |-> roots[k].id]

\* C35: in every reachable state, every successful createNode, deleteNode,
\* moveNode, reorderNode to another position, duplicateNode and rename
\* through updateNode(id, {name}) emits nodesChanged.
C35_TreeChangeNotified ==
  outcome # Hung =>
    LET notified(s) ==
          s.outcome = Returned
          => \E k \in DOMAIN s.emitted : s.emitted[k].event = "nodesChanged"
    IN /\ \A name \in Names, type \in NodeTypes, parentId \in KnownIds \cup {NULL},
             template \in Templates, icon \in Icons :
            notified(createNode(St, name, type, parentId, template, icon, FALSE))
       /\ \A id \in MapKeys(nodes) :
            /\ notified(deleteNode(St, id))
            /\ notified(duplicateNode(St, id))
            /\ \A newParentId \in (KnownIds \cup {NULL}) \ subtree(nodes, id) :
                 notified(moveNode(St, id, newParentId))
            /\ \A newIndex \in IndexArgs :
                 LET s == reorderNode(St, id, newIndex)
                 IN s.nodes # nodes => notified(s)
            /\ \A name \in NewNames :
                 name # MapGet(nodes, id).name
                 => notified(updateNode(St, id, "name" :> name))

\* the pairs of moveNode calls i, j where i moves A under B, j moves B under
\* A, j started while i was suspended at db.saveNode, and no call that
\* started between them moves A or B
crossedMoves ==
  {p \in (DOMAIN calls) \X (DOMAIN calls) :
     /\ calls[p[1]].op = "moveNode" /\ calls[p[2]].op = "moveNode"
     /\ "pending" \in DOMAIN calls[p[2]]
     /\ "pending" \in DOMAIN calls[p[1]]
     /\ p[1] \in calls[p[2]].pending
     /\ calls[p[1]].newParentId = calls[p[2]].nodeId
     /\ calls[p[2]].newParentId = calls[p[1]].nodeId
     /\ \A k \in (p[1] + 1)..(p[2] - 1) :
          calls[k].op = "moveNode"
          => calls[k].nodeId \notin {calls[p[1]].nodeId, calls[p[2]].nodeId}}

\* C36: a moveNode(B, A) that starts while a moveNode(A, B) is suspended at
\* db.saveNode passes the descendant check whenever A and B were unrelated,
\* and once db.saveNode has returned to both calls A's parentId is B, B's
\* parentId is A, and the index rebuild of the second call never returns.
C36_CrossedMovesCycle ==
  /\ \A i \in DOMAIN calls :
       (outcome # Hung /\ calls[i].op = "moveNode" /\ calls[i].pc = "saveNode") =>
         LET A == calls[i].nodeId
             B == calls[i].newParentId
         IN (B # NULL /\ MapHas(nodes, B) /\ MapHas(nodes, A)
             /\ ~isDescendant(nodes, A, B) /\ ~isDescendant(nodes, B, A))
            => moveNodeBegun(St, B, A).outcome = Returned
  /\ \A p \in crossedMoves :
       (calls[p[1]].pc # "saveNode" /\ calls[p[2]].pc # "saveNode") =>
         LET A == calls[p[1]].nodeId
             B == calls[p[2]].nodeId
         IN /\ MapGet(nodes, A).parentId = B
            /\ MapGet(nodes, B).parentId = A
            /\ dbNodes[A].parentId = B
            /\ dbNodes[B].parentId = A
            /\ pathDiverges(nodes, A)
            /\ outcome = Hung
            /\ calls[p[2]].pc = "buildSearchIndex"

\* two roots were moved under each other by overlapping calls
C36_Witness ==
  /\ outcome = Hung
  /\ \E p \in crossedMoves :
       /\ calls[p[1]].pc = "done"
       /\ calls[p[2]].pc = "buildSearchIndex"
       /\ calls[p[1]].node.parentId = NULL
       /\ calls[p[2]].node.parentId = NULL
       /\ MapGet(nodes, calls[p[1]].nodeId).parentId = calls[p[2]].nodeId
       /\ MapGet(nodes, calls[p[2]].nodeId).parentId = calls[p[1]].nodeId

\* C37: when the last two calls made are updateContent calls on one note
\* that set disjoint fields, the second started while the first was
\* suspended at db.saveContent, then once both have ended the persisted
\* Content of the note and currentContent have the value either call gave to
\* each field it set.
C37_BothUpdatesKept ==
  \A i, j \in DOMAIN calls :
    ( /\ j = Len(calls) /\ i = j - 1
      /\ calls[i].op = "updateContent" /\ calls[j].op = "updateContent"
      /\ "pending" \in DOMAIN calls[i] /\ "pending" \in DOMAIN calls[j]
      /\ i \in calls[j].pending
      /\ (DOMAIN calls[i].updates) \cap (DOMAIN calls[j].updates) = {}
      /\ calls[i].updated.nodeId = calls[j].updated.nodeId
      /\ calls[i].pc = "done" /\ calls[j].pc = "done"
      /\ outcome = Returned )
    => LET n == calls[i].updated.nodeId
           kept(content) ==
             /\ \A f \in DOMAIN calls[i].updates : content[f] = calls[i].updates[f]
             /\ \A f \in DOMAIN calls[j].updates : content[f] = calls[j].updates[f]
       IN /\ n \in DOMAIN dbContent
          /\ kept(dbContent[n])
          /\ currentContent # NoContent
          /\ kept(currentContent)

\* C38: every Content record an Editor.save is writing or has written is
\* keyed by the nodeId the editor had when the save started.
C38_SaveKeyedByEditorNode ==
  \A i \in DOMAIN calls :
    (calls[i].op = "save" /\ "updated" \in DOMAIN calls[i])
    => calls[i].updated.nodeId = calls[i].nodeId

\* C39: when closeEditor was the last thing done on a note that was open
\* (selected, its content loaded) and every call has ended, the note's name
\* is the title of the form, its persisted Content has the icon, markdown
\* and fields of the form, and selectedNodeId and currentContent are null.
C39_CloseSaves ==
  \A i \in DOMAIN calls :
    ( /\ calls[i].op = "save" /\ calls[i].closing
      /\ i + 1 = Len(calls)
      /\ "updates" \in DOMAIN calls[i]
      /\ \A k \in DOMAIN calls : calls[k].pc = "done"
      /\ outcome = Returned )
    => LET n == calls[i].nodeId
       IN /\ n \in DOMAIN dbNodes
          /\ dbNodes[n].name = calls[i].title
          /\ n \in DOMAIN dbContent
          /\ \A f \in DOMAIN calls[i].updates :
               dbContent[n][f] = calls[i].updates[f]
          /\ selectedNodeId = NULL
          /\ currentContent = NoContent

\* whether every record of the file has its key
keyed(data) ==
  /\ \A i \in DOMAIN data.nodes : data.nodes[i].id # NULL
  /\ \A i \in DOMAIN data.contents : data.contents[i].nodeId # NULL

\* C40: in every reachable state no call is left that never returns, the
\* importVault of every file completes, cyclic and dangling parentId links
\* included, with nodesChanged and then selectionChanged(null), and the
\* loadNodes of a page opened on the persisted nodes completes with
\* nodesChanged.
C40_ImportLoadComplete ==
  /\ outcome # Hung
  /\ \A data \in Snapshots \cup TangledSnapshots :
       keyed(data) =>
         LET s == importVault(St, data)
         IN /\ s.outcome = Returned
            /\ s.emitted = <<[event |-> "nodesChanged", data |-> NULL],
                             [event |-> "selectionChanged", data |-> NULL]>>
  /\ LET s == loadNodes(constructed)
     IN /\ s.outcome = Returned
        /\ s.emitted = <<[event |-> "nodesChanged", data |-> NULL]>>

====
